---- MODULE Spec2Model ----
(***************************************************************************)
(* The command registry of commands/__init__.py (register_command,         *)
(* discover_commands) together with the command tree it discovers.         *)
(*                                                                         *)
(* Representation.  A dict is a function whose DOMAIN is its key set; a    *)
(* list is a sequence.  A dotted module name such as                       *)
(* "commands.github_ops.repo_reader" is the sequence of its components,    *)
(* <<"commands", "github_ops", "repo_reader">>.  A command function is the *)
(* record of its __name__ and __module__; a schema is the record of the    *)
(* two fields of schema["function"] that the registry reads.               *)
(***************************************************************************)
EXTENDS Integers, Sequences, FiniteSets, TLC

VARIABLES
    REGISTERED_COMMANDS,   \* dict name -> function
    COMMAND_SCHEMAS,       \* list of schemas, in append order
    COMMANDS_BY_CATEGORY,  \* defaultdict category -> list of names
    sys_modules,           \* the modules the interpreter has imported
    callLog,               \* history: the arguments of every register_command call
    envCI,                 \* value of the environment variable CI ("" when unset)
    hasInit,               \* the category directories that contain an __init__.py
    broken,                \* the modules whose import raises in this environment
    pc,                    \* position of discover_commands
    catIdx,                \* index of the outer loop (categories)
    cmdIdx,                \* index of the inner loop (command modules)
    runs,                  \* number of discover_commands calls started
    completed,             \* number of discover_commands calls that returned
    invoked,               \* number of command invocations since discovery ended
    wpc,                   \* position of a register_command call running in a thread
    observed,              \* what a concurrent reader saw last
    stdout,                \* what the last operation printed
    fs,                    \* the file system: what each path holds
    denied,                \* the paths the operating system refuses access to
    result,                \* the outcome of the last file command
    github,                \* the pull requests and branches on GitHub
    disk,                  \* the lines of the file advanced_edit_file works on
    run                    \* the command call under way: position, locals, result

vars == <<REGISTERED_COMMANDS, COMMAND_SCHEMAS, COMMANDS_BY_CATEGORY, sys_modules,
          callLog, envCI, hasInit, broken, pc, catIdx, cmdIdx, runs, completed,
          invoked, wpc, observed, stdout, fs, denied, result, github, disk, run>>

registry == <<REGISTERED_COMMANDS, COMMAND_SCHEMAS, COMMANDS_BY_CATEGORY>>

\* Bounds of the model.
MaxCalls == 3
MaxRuns == 2
MaxInvocations == 1
MaxRaceCalls == 2

Last(s) == s[Len(s)]

\* Nothing was printed.
NotPrinted == [printed |-> FALSE, raised |-> FALSE, lines |-> <<>>]

\* The paths of the file system this model follows.  The directories "output"
\* (OUTPUT_DIR) and "elsewhere" always exist.
Nodes ==
    {"output/sub", "output/sub/data.json", "elsewhere/notes.txt", "elsewhere/.gitconfig"}

Absent == [kind |-> "absent", content |-> ""]

Dir == [kind |-> "dir", content |-> ""]

File(c) == [kind |-> "file", content |-> c]

EmptyFileSystem == [n \in Nodes |-> Absent]

\* No file command has run.
NoResult == [cmd |-> "", kind |-> "none", detail |-> ""]

\* No repository is modelled.
NoGithub == [pulls |-> <<>>]

\* No command call is under way.
NoCommand == [pc |-> "idle", n |-> 0]

\* The reader has not looked at the registry.
NoObservation ==
    [taken |-> FALSE, wpc |-> "idle", rc |-> <<>>, cs |-> <<>>, cbc |-> <<>>]

Range(s) == {s[i] : i \in 1..Len(s)}

(***************************************************************************)
(* The command modules of the tree: what each module passes to             *)
(* register_command at module scope.                                       *)
(***************************************************************************)

\* repo_reader with its schema named after the module instead of the command.
github_ops_repo_reader_schema_named_after_module ==
    [name |-> "github_repo_reader",
     func |-> [name |-> "repo_reader", module |-> <<"commands", "github_ops", "repo_reader">>],
     schema |-> [function |-> [name |-> "repo_reader",
                               description |-> "Read and analyze a GitHub repository using PyGithub"]]]

github_ops_repo_reader ==
    [name |-> "github_repo_reader",
     func |-> [name |-> "repo_reader", module |-> <<"commands", "github_ops", "repo_reader">>],
     schema |-> [function |-> [name |-> "github_repo_reader",
                               description |-> "Read and analyze a GitHub repository using PyGithub"]]]

(***************************************************************************)
(* The command tree on disk, as pkgutil.iter_modules lists it (sorted by   *)
(* file name).                                                             *)
(***************************************************************************)
CategoryDirs == <<"data_ops", "file_ops", "github_ops", "system_ops", "web_ops">>

\* The category directories of the tree that hold an __init__.py.
SrcPackages == {"github_ops", "web_ops"}

AllCategories == Range(CategoryDirs)

\* The sub-modules of a category directory, in listing order.
ModuleListing(category) ==
    CASE category = "data_ops" ->
           <<"text_analysis">>
      [] category = "file_ops" ->
           <<"advanced_edit_file", "analyze_image_with_gpt4", "append_file",
             "convert_document", "create_directory", "delete_file",
             "edit_file", "file_exists", "list_directory", "load_json",
             "read_file", "save_json", "smart_pdf_tools", "write_file">>
      [] category = "github_ops" ->
           <<"git_clone", "github_add_files", "github_approve_pr",
             "github_close_pr", "github_comment", "github_create_branch",
             "github_create_issue", "github_create_pr", "github_create_repo",
             "github_fork_clone", "github_merge_pr", "github_read_files",
             "github_reopen_pr", "github_repo_search", "issue_reader",
             "pr_reader", "repo_reader">>
      [] category = "system_ops" ->
           <<"screenshot">>
      [] category = "web_ops" ->
           <<"download_and_review_pdf", "extract_links", "fetch_json_api",
             "paste_to_pastebin", "raw_web_read", "social_scrape",
             "user_agents", "web_scrape", "web_search", "youtube_info">>

\* The modules a category package's __init__ imports, in statement order.
github_ops_init ==
    <<"repo_reader", "issue_reader", "pr_reader", "github_read_files",
      "github_comment", "github_create_issue", "git_clone", "github_approve_pr",
      "github_close_pr", "github_merge_pr", "github_reopen_pr", "github_fork_clone">>

web_ops_init ==
    <<"web_search", "web_scrape", "raw_web_read", "extract_links", "fetch_json_api">>

PackageInit(category) ==
    CASE category = "github_ops" -> github_ops_init
      [] category = "web_ops" -> web_ops_init
      [] OTHER -> <<>>

\* The module file the import system finds for commands.<category>.<command>:
\* the registration it performs at module scope (web_ops/user_agents.py performs none).
ModuleTable ==
    (<<"data_ops", "text_analysis">> :>
        [name |-> "text_analysis",
         func |-> [name |-> "text_analysis", module |-> <<"commands", "data_ops", "text_analysis">>],
         schema |-> [function |-> [name |-> "text_analysis", description |-> "Analyze text to extract keywords, statistics, sentiment, and generate summaries"]]])
    @@ (<<"file_ops", "advanced_edit_file">> :>
        [name |-> "advanced_edit_file",
         func |-> [name |-> "advanced_edit_file", module |-> <<"commands", "file_ops", "advanced_edit_file">>],
         schema |-> [function |-> [name |-> "advanced_edit_file", description |-> "Perform multiple line-specific edit operations on a file"]]])
    @@ (<<"file_ops", "analyze_image_with_gpt4">> :>
        [name |-> "analyze_image_with_gpt4",
         func |-> [name |-> "analyze_image_with_gpt4", module |-> <<"commands", "file_ops", "analyze_image_with_gpt4">>],
         schema |-> [function |-> [name |-> "analyze_image_with_gpt4", description |-> "Send an image to GPT-4 Vision with a prompt and return the reply."]]])
    @@ (<<"file_ops", "append_file">> :>
        [name |-> "append_file",
         func |-> [name |-> "append_file", module |-> <<"commands", "file_ops", "append_file">>],
         schema |-> [function |-> [name |-> "append_file", description |-> "Append content to a file"]]])
    @@ (<<"file_ops", "convert_document">> :>
        [name |-> "convert_document",
         func |-> [name |-> "convert_document", module |-> <<"commands", "file_ops", "convert_document">>],
         schema |-> [function |-> [name |-> "convert_document", description |-> "Convert a document from one format to another (supports PDF, Word, Markdown, HTML, TXT, RTF, ODT)"]]])
    @@ (<<"file_ops", "create_directory">> :>
        [name |-> "create_directory",
         func |-> [name |-> "create_directory", module |-> <<"commands", "file_ops", "create_directory">>],
         schema |-> [function |-> [name |-> "create_directory", description |-> "Create a directory"]]])
    @@ (<<"file_ops", "delete_file">> :>
        [name |-> "delete_file",
         func |-> [name |-> "delete_file", module |-> <<"commands", "file_ops", "delete_file">>],
         schema |-> [function |-> [name |-> "delete_file", description |-> "Delete a file"]]])
    @@ (<<"file_ops", "edit_file">> :>
        [name |-> "edit_file",
         func |-> [name |-> "edit_file", module |-> <<"commands", "file_ops", "edit_file">>],
         schema |-> [function |-> [name |-> "edit_file", description |-> "Edit a file with various operations (replace entire content or append)"]]])
    @@ (<<"file_ops", "file_exists">> :>
        [name |-> "file_exists",
         func |-> [name |-> "file_exists", module |-> <<"commands", "file_ops", "file_exists">>],
         schema |-> [function |-> [name |-> "file_exists", description |-> "Check if a file exists"]]])
    @@ (<<"file_ops", "list_directory">> :>
        [name |-> "list_directory",
         func |-> [name |-> "list_directory", module |-> <<"commands", "file_ops", "list_directory">>],
         schema |-> [function |-> [name |-> "list_directory", description |-> "List the contents of a directory"]]])
    @@ (<<"file_ops", "load_json">> :>
        [name |-> "load_json",
         func |-> [name |-> "load_json", module |-> <<"commands", "file_ops", "load_json">>],
         schema |-> [function |-> [name |-> "load_json", description |-> "Load JSON data from a file"]]])
    @@ (<<"file_ops", "read_file">> :>
        [name |-> "read_file",
         func |-> [name |-> "read_file", module |-> <<"commands", "file_ops", "read_file">>],
         schema |-> [function |-> [name |-> "read_file", description |-> "Read the contents of a file in the output directory"]]])
    @@ (<<"file_ops", "save_json">> :>
        [name |-> "save_json",
         func |-> [name |-> "save_json", module |-> <<"commands", "file_ops", "save_json">>],
         schema |-> [function |-> [name |-> "save_json", description |-> "Save data as JSON to a file"]]])
    @@ (<<"file_ops", "smart_pdf_tools">> :>
        [name |-> "smart_pdf_tools",
         func |-> [name |-> "smart_pdf_tools", module |-> <<"commands", "file_ops", "smart_pdf_tools">>],
         schema |-> [function |-> [name |-> "smart_pdf_tools", description |-> "Comprehensive PDF processing tool for extracting text, metadata, tables, searching content, and analyzing documents"]]])
    @@ (<<"file_ops", "write_file">> :>
        [name |-> "write_file",
         func |-> [name |-> "write_file", module |-> <<"commands", "file_ops", "write_file">>],
         schema |-> [function |-> [name |-> "write_file", description |-> "Write content to a file in the output directory (overwrites existing content)"]]])
    @@ (<<"github_ops", "git_clone">> :>
        [name |-> "git_clone",
         func |-> [name |-> "git_clone", module |-> <<"commands", "github_ops", "git_clone">>],
         schema |-> [function |-> [name |-> "git_clone", description |-> "Clone a git repository into the agent's output directory"]]])
    @@ (<<"github_ops", "github_add_files">> :>
        [name |-> "github_add_files",
         func |-> [name |-> "github_add_files", module |-> <<"commands", "github_ops", "github_add_files">>],
         schema |-> [function |-> [name |-> "github_add_files", description |-> "Add or update files in a GitHub repository"]]])
    @@ (<<"github_ops", "github_approve_pr">> :>
        [name |-> "github_approve_pr",
         func |-> [name |-> "github_approve_pr", module |-> <<"commands", "github_ops", "github_approve_pr">>],
         schema |-> [function |-> [name |-> "github_approve_pr", description |-> "Approve a pull request in a GitHub repository"]]])
    @@ (<<"github_ops", "github_close_pr">> :>
        [name |-> "github_close_pr",
         func |-> [name |-> "github_close_pr", module |-> <<"commands", "github_ops", "github_close_pr">>],
         schema |-> [function |-> [name |-> "github_close_pr", description |-> "Close a pull request in a GitHub repository with an optional comment"]]])
    @@ (<<"github_ops", "github_comment">> :>
        [name |-> "github_comment",
         func |-> [name |-> "github_comment", module |-> <<"commands", "github_ops", "github_comment">>],
         schema |-> [function |-> [name |-> "github_comment", description |-> "Add a comment to a GitHub pull request"]]])
    @@ (<<"github_ops", "github_create_branch">> :>
        [name |-> "github_create_branch",
         func |-> [name |-> "github_create_branch", module |-> <<"commands", "github_ops", "github_create_branch">>],
         schema |-> [function |-> [name |-> "github_create_branch", description |-> "Create a new branch in a GitHub repository"]]])
    @@ (<<"github_ops", "github_create_issue">> :>
        [name |-> "github_create_issue",
         func |-> [name |-> "github_create_issue", module |-> <<"commands", "github_ops", "github_create_issue">>],
         schema |-> [function |-> [name |-> "github_create_issue", description |-> "Create a new GitHub issue"]]])
    @@ (<<"github_ops", "github_create_pr">> :>
        [name |-> "github_create_pr",
         func |-> [name |-> "github_create_pr", module |-> <<"commands", "github_ops", "github_create_pr">>],
         schema |-> [function |-> [name |-> "github_create_pr", description |-> "Create a new pull request in a GitHub repository"]]])
    @@ (<<"github_ops", "github_create_repo">> :>
        [name |-> "github_create_repo",
         func |-> [name |-> "github_create_repo", module |-> <<"commands", "github_ops", "github_create_repo">>],
         schema |-> [function |-> [name |-> "github_create_repo", description |-> "Create a new GitHub repository"]]])
    @@ (<<"github_ops", "github_fork_clone">> :>
        [name |-> "github_fork_clone",
         func |-> [name |-> "github_fork_clone", module |-> <<"commands", "github_ops", "github_fork_clone">>],
         schema |-> [function |-> [name |-> "github_fork_clone", description |-> "Fork a GitHub repository, clone it locally, and set up remotes to target the original repo for PRs"]]])
    @@ (<<"github_ops", "github_merge_pr">> :>
        [name |-> "github_merge_pr",
         func |-> [name |-> "github_merge_pr", module |-> <<"commands", "github_ops", "github_merge_pr">>],
         schema |-> [function |-> [name |-> "github_merge_pr", description |-> "Merge a pull request in a GitHub repository"]]])
    @@ (<<"github_ops", "github_read_files">> :>
        [name |-> "github_read_files",
         func |-> [name |-> "github_read_files", module |-> <<"commands", "github_ops", "github_read_files">>],
         schema |-> [function |-> [name |-> "github_read_files", description |-> "Read file contents from a GitHub pull request"]]])
    @@ (<<"github_ops", "github_reopen_pr">> :>
        [name |-> "github_reopen_pr",
         func |-> [name |-> "github_reopen_pr", module |-> <<"commands", "github_ops", "github_reopen_pr">>],
         schema |-> [function |-> [name |-> "github_reopen_pr", description |-> "Reopen a closed pull request in a GitHub repository"]]])
    @@ (<<"github_ops", "github_repo_search">> :>
        [name |-> "github_repo_search",
         func |-> [name |-> "github_repo_search", module |-> <<"commands", "github_ops", "github_repo_search">>],
         schema |-> [function |-> [name |-> "github_repo_search", description |-> "Search GitHub repositories with various criteria and optionally save README contents"]]])
    @@ (<<"github_ops", "issue_reader">> :>
        [name |-> "github_issue_reader",
         func |-> [name |-> "issue_reader", module |-> <<"commands", "github_ops", "issue_reader">>],
         schema |-> [function |-> [name |-> "github_issue_reader", description |-> "Read GitHub issues from a repository using PyGithub"]]])
    @@ (<<"github_ops", "pr_reader">> :>
        [name |-> "github_pr_reader",
         func |-> [name |-> "pr_reader", module |-> <<"commands", "github_ops", "pr_reader">>],
         schema |-> [function |-> [name |-> "github_pr_reader", description |-> "Read GitHub pull requests from a repository using PyGithub"]]])
    @@ (<<"github_ops", "repo_reader">> :>
        github_ops_repo_reader)
    @@ (<<"system_ops", "screenshot">> :>
        [name |-> "take_screenshot",
         func |-> [name |-> "take_screenshot", module |-> <<"commands", "system_ops", "screenshot">>],
         schema |-> [function |-> [name |-> "take_screenshot", description |-> "Take a screenshot and save it to the output directory."]]])
    @@ (<<"web_ops", "download_and_review_pdf">> :>
        [name |-> "download_and_review_pdf",
         func |-> [name |-> "download_and_review_pdf", module |-> <<"commands", "web_ops", "download_and_review_pdf">>],
         schema |-> [function |-> [name |-> "download_and_review_pdf", description |-> "Download a PDF from a URL and automatically analyze it with comprehensive review capabilities"]]])
    @@ (<<"web_ops", "extract_links">> :>
        [name |-> "extract_links",
         func |-> [name |-> "extract_links", module |-> <<"commands", "web_ops", "extract_links">>],
         schema |-> [function |-> [name |-> "extract_links", description |-> "Extract and optionally categorize all links from a webpage"]]])
    @@ (<<"web_ops", "fetch_json_api">> :>
        [name |-> "fetch_json_api",
         func |-> [name |-> "fetch_json_api", module |-> <<"commands", "web_ops", "fetch_json_api">>],
         schema |-> [function |-> [name |-> "fetch_json_api", description |-> "Fetch JSON data from an API endpoint with various options"]]])
    @@ (<<"web_ops", "paste_to_pastebin">> :>
        [name |-> "paste_to_pastebin",
         func |-> [name |-> "paste_to_pastebin", module |-> <<"commands", "web_ops", "paste_to_pastebin">>],
         schema |-> [function |-> [name |-> "paste_to_pastebin", description |-> "Paste content to dpaste.org and get a shareable URL (anonymous, no API key required)"]]])
    @@ (<<"web_ops", "raw_web_read">> :>
        [name |-> "raw_web_read",
         func |-> [name |-> "raw_web_read", module |-> <<"commands", "web_ops", "raw_web_read">>],
         schema |-> [function |-> [name |-> "raw_web_read", description |-> "Fetch the raw content of a webpage with minimal processing"]]])
    @@ (<<"web_ops", "social_scrape">> :>
        [name |-> "social_scrape",
         func |-> [name |-> "social_scrape", module |-> <<"commands", "web_ops", "social_scrape">>],
         schema |-> [function |-> [name |-> "social_scrape", description |-> "Scrape content from social media platforms (Twitter/Reddit) including posts and trending topics"]]])
    @@ (<<"web_ops", "web_scrape">> :>
        [name |-> "web_scrape",
         func |-> [name |-> "web_scrape", module |-> <<"commands", "web_ops", "web_scrape">>],
         schema |-> [function |-> [name |-> "web_scrape", description |-> "Fetch and parse content from a webpage"]]])
    @@ (<<"web_ops", "web_search">> :>
        [name |-> "web_search",
         func |-> [name |-> "web_search", module |-> <<"commands", "web_ops", "web_search">>],
         schema |-> [function |-> [name |-> "web_search", description |-> "Search the web for information about a topic"]]])
    @@ (<<"web_ops", "youtube_info">> :>
        [name |-> "youtube_info",
         func |-> [name |-> "youtube_info", module |-> <<"commands", "web_ops", "youtube_info">>],
         schema |-> [function |-> [name |-> "youtube_info", description |-> "Extract information from a YouTube video including title, description, duration, view count, and metadata"]]])

ModulePath(category, command) == <<"commands", category, command>>

CategoryPath(category) == <<"commands", category>>

AllModulePaths ==
    UNION {{ModulePath(c, m) : m \in Range(ModuleListing(c))} : c \in AllCategories}

(***************************************************************************)
(* register_command                                                        *)
(***************************************************************************)

\* The category taken from the last segment of the module path.
category_of_last_segment(func) ==
    IF Len(func.module) > 1 THEN func.module[Len(func.module)] ELSE "misc"

\* The category of a function: module.split('.')[1] when the dotted module
\* name has more than one component, 'misc' otherwise.
category_of(func) ==
    IF Len(func.module) > 1 THEN func.module[2] ELSE "misc"

\* REGISTERED_COMMANDS[name] = func
dict_set(d, k, v) ==
    [x \in DOMAIN d \cup {k} |-> IF x = k THEN v ELSE d[x]]

\* COMMANDS_BY_CATEGORY[category].append(name) on a defaultdict(list)
defaultdict_append(d, k, v) ==
    [x \in DOMAIN d \cup {k} |->
        IF x = k THEN Append(IF k \in DOMAIN d THEN d[k] ELSE <<>>, v) ELSE d[x]]

\* Variants of register_command, each with one plausible slip (mutation
\* analysis of the properties C3, C6 and C7).
register_command_rebind(reg, name, func, schema) ==
    [reg EXCEPT !.rc = [x \in {name} |-> func],
                !.cs = Append(reg.cs, schema),
                !.cbc = defaultdict_append(reg.cbc, category_of(func), name)]

register_command_first_wins(reg, name, func, schema) ==
    [reg EXCEPT !.rc = IF name \in DOMAIN reg.rc THEN reg.rc ELSE dict_set(reg.rc, name, func),
                !.cs = Append(reg.cs, schema),
                !.cbc = defaultdict_append(reg.cbc, category_of(func), name)]

register_command_replace_schema(reg, name, func, schema) ==
    [reg EXCEPT !.rc = dict_set(reg.rc, name, func),
                !.cs = Append(SelectSeq(reg.cs,
                                 LAMBDA s : s.function.name # schema.function.name), schema),
                !.cbc = defaultdict_append(reg.cbc, category_of(func), name)]

register_command_keyed_by_func_name(reg, name, func, schema) ==
    [reg EXCEPT !.rc = dict_set(reg.rc, func.name, func),
                !.cs = Append(reg.cs, schema),
                !.cbc = defaultdict_append(reg.cbc, category_of(func), name)]

\* reg is a record holding the three collections in its fields rc, cs, cbc.
register_command(reg, name, func, schema) ==
    [reg EXCEPT !.rc = dict_set(reg.rc, name, func),
                !.cs = Append(reg.cs, schema),
                !.cbc = defaultdict_append(reg.cbc, category_of(func), name)]

\* The state an import or a registration works on.
Current ==
    [rc |-> REGISTERED_COMMANDS, cs |-> COMMAND_SCHEMAS, cbc |-> COMMANDS_BY_CATEGORY,
     mods |-> sys_modules, log |-> callLog, ok |-> TRUE]

Store(st) ==
    /\ REGISTERED_COMMANDS' = st.rc
    /\ COMMAND_SCHEMAS' = st.cs
    /\ COMMANDS_BY_CATEGORY' = st.cbc
    /\ sys_modules' = st.mods
    /\ callLog' = st.log

\* A call of register_command, recorded in the call history.
call_register_command(st, name, func, schema) ==
    [register_command(st, name, func, schema) EXCEPT
        !.log = Append(st.log, [name |-> name, func |-> func, schema |-> schema])]

(***************************************************************************)
(* Callers of register_command outside discovery: any name, function and   *)
(* schema.                                                                 *)
(***************************************************************************)
Names == {"ping", "add", "fail_always"}

Funcs ==
    {[name |-> "ping", module |-> <<"commands", "stub_ops", "ping">>],
     [name |-> "fail_always", module |-> <<"stubs">>]}

Descriptions == {"first description", "second description"}

Schemas ==
    {[function |-> [name |-> n, description |-> d]] : n \in Names, d \in Descriptions}

Init ==
    /\ REGISTERED_COMMANDS = <<>>
    /\ COMMAND_SCHEMAS = <<>>
    /\ COMMANDS_BY_CATEGORY = <<>>
    /\ sys_modules = {}
    /\ callLog = <<>>
    /\ envCI = ""
    /\ hasInit = SrcPackages
    /\ broken = {}
    /\ pc = "idle"
    /\ catIdx = 1
    /\ cmdIdx = 1
    /\ runs = 0
    /\ completed = 0
    /\ invoked = 0
    /\ wpc = "idle"
    /\ observed = NoObservation
    /\ stdout = NotPrinted
    /\ fs = EmptyFileSystem
    /\ denied = {}
    /\ result = NoResult
    /\ github = NoGithub
    /\ disk = <<>>
    /\ run = NoCommand

RegisterCall(name, func, schema) ==
    /\ Len(callLog) < MaxCalls
    /\ Store(call_register_command(Current, name, func, schema))
    /\ stdout' = NotPrinted
    /\ UNCHANGED <<fs, denied, result, github, disk, run>>
    /\ UNCHANGED <<envCI, hasInit, broken, pc, catIdx, cmdIdx, runs, completed>>
    /\ UNCHANGED <<invoked, wpc, observed>>

Next ==
    \E name \in Names, func \in Funcs, schema \in Schemas :
        RegisterCall(name, func, schema)

Spec == Init /\ [][Next]_vars

(***************************************************************************)
(* The import system, as far as discover_commands depends on it.           *)
(***************************************************************************)

\* Executing the body of commands.<category>.<command>: a command module
\* calls register_command as its last statement.
exec_module(st, category, command) ==
    IF <<category, command>> \in DOMAIN ModuleTable
    THEN LET m == ModuleTable[<<category, command>>]
         IN call_register_command(st, m.name, m.func, m.schema)
    ELSE st

\* exec_module without the sys.modules cache in front of it (see import_module).
import_module_uncached(st, category, command) ==
    IF ~st.ok THEN st
    ELSE IF ModulePath(category, command) \in broken THEN [st EXCEPT !.ok = FALSE]
    ELSE exec_module([st EXCEPT !.mods = @ \cup {ModulePath(category, command)}],
                     category, command)

\* import_module for a module whose body raises only after its
\* register_command call.
import_module_raise_after_register(st, category, command) ==
    IF ~st.ok THEN st
    ELSE IF ModulePath(category, command) \in st.mods THEN st
    ELSE IF ModulePath(category, command) \in broken
         THEN [exec_module(st, category, command) EXCEPT !.ok = FALSE]
    ELSE exec_module([st EXCEPT !.mods = @ \cup {ModulePath(category, command)}],
                     category, command)

\* importlib.import_module("commands.<category>.<command>"): a module found in
\* sys.modules is not executed again; a module whose import raises is not
\* entered in sys.modules and has not reached its register_command call.
import_module(st, category, command) ==
    IF ~st.ok THEN st
    ELSE IF ModulePath(category, command) \in st.mods THEN st
    ELSE IF ModulePath(category, command) \in broken THEN [st EXCEPT !.ok = FALSE]
    ELSE exec_module([st EXCEPT !.mods = @ \cup {ModulePath(category, command)}],
                     category, command)

\* The "from . import x" statements of a category package, in order; the
\* first one that raises ends the execution of the package body.
RECURSIVE import_all(_, _, _, _)
import_all(st, category, commands, i) ==
    IF i > Len(commands) \/ ~st.ok THEN st
    ELSE import_all(import_module(st, category, commands[i]), category, commands, i + 1)

\* importlib.import_module("commands.<category>"): runs the package's
\* __init__ unless the package is cached; a package whose body raised is not
\* left in sys.modules, the sub-modules it had imported are.
import_category(st, category) ==
    IF CategoryPath(category) \in st.mods THEN st
    ELSE LET r == import_all(st, category, PackageInit(category), 1)
         IN IF r.ok THEN [r EXCEPT !.mods = @ \cup {CategoryPath(category)}] ELSE r

(***************************************************************************)
(* discover_commands                                                       *)
(***************************************************************************)

\* str.lower() on the values of CI that the model draws.
EnvValues == {"", "true", "True", "TRUE", "false"}

lower(s) ==
    CASE s = "True" -> "true"
      [] s = "TRUE" -> "true"
      [] OTHER -> s

skip_gui_commands == lower(envCI) = "true"

gui_commands == {<<"system_ops", "screenshot">>}

\* pkgutil.iter_modules([package_dir]): the sorted directory listing; a
\* directory without an __init__.py is not a package and is not listed.
iter_categories == SelectSeq(CategoryDirs, LAMBDA c : c \in hasInit)

category_name == iter_categories[catIdx]

command_name == ModuleListing(category_name)[cmdIdx]

\* The process before the first discover_commands call.  The environment is
\* drawn here: the value of CI, at most one module whose import raises, and
\* the deployed tree, which is either the tree as it stands (only github_ops
\* and web_ops hold an __init__.py) or one with an __init__.py in every
\* category directory.
InitDiscover ==
    /\ REGISTERED_COMMANDS = <<>>
    /\ COMMAND_SCHEMAS = <<>>
    /\ COMMANDS_BY_CATEGORY = <<>>
    /\ sys_modules = {}
    /\ callLog = <<>>
    /\ envCI \in EnvValues
    /\ hasInit \in {SrcPackages, AllCategories}
    /\ broken \in {{}} \cup {{m} : m \in AllModulePaths}
    /\ pc = "idle"
    /\ catIdx = 1
    /\ cmdIdx = 1
    /\ runs = 0
    /\ completed = 0
    /\ invoked = 0
    /\ wpc = "idle"
    /\ observed = NoObservation
    /\ stdout = NotPrinted
    /\ fs = EmptyFileSystem
    /\ denied = {}
    /\ result = NoResult
    /\ github = NoGithub
    /\ disk = <<>>
    /\ run = NoCommand

\* A call of discover_commands (a first one, or a later one after the
\* previous call returned or raised).
DiscoverCall ==
    /\ pc \in {"idle", "done", "raised"}
    /\ runs < MaxRuns
    /\ runs' = runs + 1
    /\ pc' = "category"
    /\ catIdx' = 1
    /\ cmdIdx' = 1
    /\ UNCHANGED <<registry, sys_modules, callLog, envCI, hasInit, broken, completed>>
    /\ invoked' = 0
    /\ UNCHANGED <<wpc, observed, stdout, fs, denied, result, github, disk, run>>

\* Line 61: import the category package.
ImportCategoryPackage ==
    /\ pc = "category"
    /\ catIdx <= Len(iter_categories)
    /\ LET r == import_category(Current, category_name)
       IN /\ Store(r)
          /\ pc' = IF r.ok THEN "command" ELSE "raised"
    /\ cmdIdx' = 1
    /\ UNCHANGED <<envCI, hasInit, broken, catIdx, runs, completed>>
    /\ UNCHANGED <<invoked, wpc, observed, stdout, fs, denied, result, github, disk, run>>

\* Lines 69-71: a GUI command module is skipped in CI.
SkipGuiCommand ==
    /\ pc = "command"
    /\ cmdIdx <= Len(ModuleListing(category_name))
    /\ skip_gui_commands /\ <<category_name, command_name>> \in gui_commands
    /\ cmdIdx' = cmdIdx + 1
    /\ UNCHANGED <<registry, sys_modules, callLog, envCI, hasInit, broken, pc, catIdx,
                   runs, completed>>
    /\ UNCHANGED <<invoked, wpc, observed, stdout, fs, denied, result, github, disk, run>>

\* Line 73: import the command module; an exception of the import leaves
\* discover_commands.
ImportCommandModule ==
    /\ pc = "command"
    /\ cmdIdx <= Len(ModuleListing(category_name))
    /\ ~(skip_gui_commands /\ <<category_name, command_name>> \in gui_commands)
    /\ LET r == import_module(Current, category_name, command_name)
       IN /\ Store(r)
          /\ pc' = IF r.ok THEN "command" ELSE "raised"
          /\ cmdIdx' = IF r.ok THEN cmdIdx + 1 ELSE cmdIdx
    /\ UNCHANGED <<envCI, hasInit, broken, catIdx, runs, completed>>
    /\ UNCHANGED <<invoked, wpc, observed, stdout, fs, denied, result, github, disk, run>>

\* The inner loop is exhausted: next category.
NextCategory ==
    /\ pc = "command"
    /\ cmdIdx > Len(ModuleListing(category_name))
    /\ catIdx' = catIdx + 1
    /\ pc' = "category"
    /\ UNCHANGED <<registry, sys_modules, callLog, envCI, hasInit, broken, cmdIdx,
                   runs, completed>>
    /\ UNCHANGED <<invoked, wpc, observed, stdout, fs, denied, result, github, disk, run>>

\* The outer loop is exhausted: discover_commands returns.
DiscoverReturn ==
    /\ pc = "category"
    /\ catIdx > Len(iter_categories)
    /\ pc' = "done"
    /\ completed' = completed + 1
    /\ UNCHANGED <<registry, sys_modules, callLog, envCI, hasInit, broken, catIdx, cmdIdx,
                   runs>>
    /\ UNCHANGED <<invoked, wpc, observed, stdout, fs, denied, result, github, disk, run>>

(***************************************************************************)
(* Invocation of a registered command by the caller, once discovery has    *)
(* ended.  The only command whose body touches the import system is        *)
(* download_and_review_pdf: review_pdf imports                             *)
(* commands.file_ops.smart_pdf_tools at call time, inside a try block.     *)
(***************************************************************************)

\* The command modules a function imports when it runs.
lazy_imports(func) ==
    IF func = ModuleTable[<<"web_ops", "download_and_review_pdf">>].func
    THEN <<<<"file_ops", "smart_pdf_tools">>>>
    ELSE <<>>

\* "from commands.<category>.<command> import ...": the parent package is
\* imported first (as a namespace package when the directory holds no
\* __init__.py), then the module.
import_from(st, category, command) ==
    import_module(import_category(st, category), category, command)

\* The effect of running func on the registry and on sys.modules; reviewed
\* tells whether the run reached review_pdf (the download succeeded).  An
\* exception of the import is caught inside review_pdf.
invoke(st, func, reviewed) ==
    IF reviewed /\ lazy_imports(func) # <<>>
    THEN [import_from(st, lazy_imports(func)[1][1], lazy_imports(func)[1][2])
             EXCEPT !.ok = TRUE]
    ELSE st

InvokeCommand(name, reviewed) ==
    /\ pc \in {"done", "raised"}
    /\ name \in DOMAIN REGISTERED_COMMANDS
    /\ invoked < MaxInvocations
    /\ Store(invoke(Current, REGISTERED_COMMANDS[name], reviewed))
    /\ invoked' = invoked + 1
    /\ UNCHANGED <<wpc, observed, stdout, fs, denied, result, github, disk, run>>
    /\ UNCHANGED <<envCI, hasInit, broken, pc, catIdx, cmdIdx, runs, completed>>

NextDiscover ==
    \/ DiscoverCall
    \/ ImportCategoryPackage
    \/ SkipGuiCommand
    \/ ImportCommandModule
    \/ NextCategory
    \/ DiscoverReturn
    \/ \E name \in DOMAIN REGISTERED_COMMANDS, reviewed \in BOOLEAN :
          InvokeCommand(name, reviewed)

SpecDiscover == InitDiscover /\ [][NextDiscover]_vars

(***************************************************************************)
(* register_command running in one thread while another thread reads the   *)
(* registry (specification SpecConcurrent).  The three statements of       *)
(* register_command are three steps; nothing orders them with respect to   *)
(* a reader.                                                               *)
(***************************************************************************)

\* Line 34 with the updates of lines 35 and 40 folded into the same step.
register_line34_atomic(reg, name, func, schema) ==
    [reg EXCEPT !.rc = dict_set(reg.rc, name, func),
                !.cs = Append(reg.cs, schema),
                !.cbc = defaultdict_append(reg.cbc, category_of(func), name)]

\* Line 34: REGISTERED_COMMANDS[name] = func
register_line34(reg, name, func, schema) ==
    [reg EXCEPT !.rc = dict_set(reg.rc, name, func)]

\* Line 35: COMMAND_SCHEMAS.append(schema)
register_line35(reg, name, func, schema) ==
    [reg EXCEPT !.cs = Append(reg.cs, schema)]

\* Lines 38-40: COMMANDS_BY_CATEGORY[category].append(name)
register_line40(reg, name, func, schema) ==
    [reg EXCEPT !.cbc = defaultdict_append(reg.cbc, category_of(func), name)]

\* The call in progress is the last one of the call history.
BeginRegister(name, func, schema) ==
    /\ wpc = "idle"
    /\ Len(callLog) < MaxRaceCalls
    /\ callLog' = Append(callLog, [name |-> name, func |-> func, schema |-> schema])
    /\ wpc' = "line34"
    /\ observed' = NoObservation
    /\ UNCHANGED <<registry, sys_modules, envCI, hasInit, broken, pc, catIdx, cmdIdx,
                   runs, completed, invoked, stdout, fs, denied, result, github, disk, run>>

\* The thread executes line 34.
RegisterLine34 ==
    /\ wpc = "line34"
    /\ LET c == Last(callLog)
           r == register_line34(Current, c.name, c.func, c.schema)
       IN /\ REGISTERED_COMMANDS' = r.rc
          /\ COMMAND_SCHEMAS' = r.cs
          /\ COMMANDS_BY_CATEGORY' = r.cbc
    /\ wpc' = "line35"
    /\ UNCHANGED <<sys_modules, callLog, envCI, hasInit, broken, pc, catIdx, cmdIdx,
                   runs, completed, invoked, observed, stdout, fs, denied, result, github, disk, run>>

\* The thread executes line 35.
RegisterLine35 ==
    /\ wpc = "line35"
    /\ LET c == Last(callLog)
           r == register_line35(Current, c.name, c.func, c.schema)
       IN /\ REGISTERED_COMMANDS' = r.rc
          /\ COMMAND_SCHEMAS' = r.cs
          /\ COMMANDS_BY_CATEGORY' = r.cbc
    /\ wpc' = "line40"
    /\ UNCHANGED <<sys_modules, callLog, envCI, hasInit, broken, pc, catIdx, cmdIdx,
                   runs, completed, invoked, observed, stdout, fs, denied, result, github, disk, run>>

\* The thread executes lines 38-40 and the call returns.
RegisterLine40 ==
    /\ wpc = "line40"
    /\ LET c == Last(callLog)
           r == register_line40(Current, c.name, c.func, c.schema)
       IN /\ REGISTERED_COMMANDS' = r.rc
          /\ COMMAND_SCHEMAS' = r.cs
          /\ COMMANDS_BY_CATEGORY' = r.cbc
    /\ wpc' = "idle"
    /\ UNCHANGED <<sys_modules, callLog, envCI, hasInit, broken, pc, catIdx, cmdIdx,
                   runs, completed, invoked, observed, stdout, fs, denied, result, github, disk, run>>

\* The reader thread looks at the three collections.
Read ==
    /\ ~observed.taken
    /\ observed' = [taken |-> TRUE, wpc |-> wpc, rc |-> REGISTERED_COMMANDS,
                    cs |-> COMMAND_SCHEMAS, cbc |-> COMMANDS_BY_CATEGORY]
    /\ UNCHANGED <<registry, sys_modules, callLog, envCI, hasInit, broken, pc, catIdx,
                   cmdIdx, runs, completed, invoked, wpc, stdout, fs, denied, result, github, disk, run>>

NextConcurrent ==
    \/ \E name \in Names, func \in Funcs, schema \in Schemas :
          BeginRegister(name, func, schema)
    \/ RegisterLine34
    \/ RegisterLine35
    \/ RegisterLine40
    \/ Read

SpecConcurrent == Init /\ [][NextConcurrent]_vars

\* The name of the call in progress was not registered by an earlier call.
FreshCall == \A i \in 1..(Len(callLog) - 1) : callLog[i].name # Last(callLog).name

ObservedBucketNames == UNION {Range(observed.cbc[c]) : c \in DOMAIN observed.cbc}

\* C14: a reader that runs between the statements of a register_command call
\* for a new name sees the name in REGISTERED_COMMANDS while the schema of the
\* call is not yet in COMMAND_SCHEMAS or the name is in no category bucket.
C14_ReaderSeesIntermediateState ==
    (observed.taken /\ observed.wpc \in {"line35", "line40"} /\ FreshCall) =>
        /\ Last(callLog).name \in DOMAIN observed.rc
        /\ \/ Len(observed.cs) < Len(callLog)
           \/ Last(callLog).name \notin ObservedBucketNames

\* A reader has seen a name in REGISTERED_COMMANDS with no schema in
\* COMMAND_SCHEMAS and in no bucket.
C14_Witness ==
    /\ observed.taken
    /\ observed.wpc = "line35"
    /\ Len(callLog) = 2
    /\ FreshCall
    /\ Last(callLog).name \in DOMAIN observed.rc
    /\ Len(observed.cs) = 1
    /\ Last(callLog).name \notin ObservedBucketNames

(***************************************************************************)
(* print_commands (specification SpecPrint).  Strings that are compared,   *)
(* measured or reformatted are handled through their character codes.      *)
(***************************************************************************)

\* The characters of the command names and categories of this model.
Codes(s) ==
    CASE s = "ping" -> <<112, 105, 110, 103>>
      [] s = "add" -> <<97, 100, 100>>
      [] s = "fail_always" -> <<102, 97, 105, 108, 95, 97, 108, 119, 97, 121, 115>>
      [] s = "stub_ops" -> <<115, 116, 117, 98, 95, 111, 112, 115>>
      [] s = "misc" -> <<109, 105, 115, 99>>

\* a < b for sequences of character codes, as str compares.
RECURSIVE codes_less(_, _, _)
codes_less(a, b, i) ==
    IF i > Len(a) THEN i <= Len(b)
    ELSE IF i > Len(b) THEN FALSE
    ELSE IF a[i] # b[i] THEN a[i] < b[i]
    ELSE codes_less(a, b, i + 1)

str_less(a, b) == codes_less(Codes(a), Codes(b), 1)

\* The list in registration order instead of sorted order.
unsorted(s) == s

\* sorted(list of str)
RECURSIVE sorted(_)
sorted(s) ==
    IF s = <<>> THEN <<>>
    ELSE LET m == CHOOSE i \in 1..Len(s) :
                      /\ \A j \in 1..Len(s) : ~str_less(s[j], s[i])
                      /\ \A j \in 1..(i - 1) : s[j] # s[i]
         IN <<s[m]>> \o sorted(SubSeq(s, 1, m - 1) \o SubSeq(s, m + 1, Len(s)))

\* sorted(d.keys())
RECURSIVE sorted_keys(_)
sorted_keys(S) ==
    IF S = {} THEN <<>>
    ELSE LET m == CHOOSE x \in S : \A y \in S : ~str_less(y, x)
         IN <<m>> \o sorted_keys(S \ {m})

\* The keys print_commands walks when it walks a fixed list of categories.
fixed_categories(d) == <<"misc", "stub_ops">>

\* The keys the outer loop of print_commands walks, in order.
listed_categories(d) == sorted_keys(DOMAIN d)

\* d[k] on a defaultdict(list): a missing key is created with an empty list.
defaultdict_getitem(d, k) ==
    IF k \in DOMAIN d THEN d ELSE [x \in DOMAIN d \cup {k} |-> IF x = k THEN <<>> ELSE d[x]]

\* category.replace('_', ' ').title(), on character codes.
RECURSIVE title(_, _, _)
title(cs, i, afterCased) ==
    IF i > Len(cs) THEN <<>>
    ELSE LET c == cs[i]
             isLower == c >= 97 /\ c <= 122
             isUpper == c >= 65 /\ c <= 90
             cased == isLower \/ isUpper
             out == IF ~cased THEN c
                    ELSE IF afterCased THEN (IF isUpper THEN c + 32 ELSE c)
                    ELSE (IF isLower THEN c - 32 ELSE c)
         IN <<out>> \o title(cs, i + 1, cased)

category_display(category) ==
    title([i \in 1..Len(Codes(category)) |->
              IF Codes(category)[i] = 95 THEN 32 ELSE Codes(category)[i]], 1, FALSE)

\* max(len(cmd) for cmds in COMMANDS_BY_CATEGORY.values() for cmd in cmds)
AllBucketEntries(d) == UNION {Range(d[c]) : c \in DOMAIN d}

max_length(d) ==
    CHOOSE n \in {Len(Codes(x)) : x \in AllBucketEntries(d)} :
        \A x \in AllBucketEntries(d) : Len(Codes(x)) <= n

\* A schema on which schema['function']['name'] does not raise KeyError.
HasFunctionName(schema) ==
    "function" \in DOMAIN schema /\ "name" \in DOMAIN schema.function

\* next((schema['function']['description'] for schema in COMMAND_SCHEMAS
\*       if schema['function']['name'] == cmd), "No description available")
RECURSIVE find_description(_, _, _)
find_description(cs, cmd, i) ==
    IF i > Len(cs) THEN [raised |-> FALSE, text |-> "No description available"]
    ELSE IF ~HasFunctionName(cs[i]) THEN [raised |-> TRUE, text |-> ""]
    ELSE IF cs[i].function.name = cmd
         THEN IF "description" \in DOMAIN cs[i].function
              THEN [raised |-> FALSE, text |-> cs[i].function.description]
              ELSE [raised |-> TRUE, text |-> ""]
    ELSE find_description(cs, cmd, i + 1)

TextLine(text) ==
    [kind |-> "text", text |-> text, category |-> "", display |-> <<>>, cmd |-> "",
     width |-> 0, description |-> ""]

CategoryLine(category) ==
    [kind |-> "category", text |-> "", category |-> category,
     display |-> category_display(category), cmd |-> "", width |-> 0, description |-> ""]

CommandLine(category, cmd, width, description) ==
    [kind |-> "command", text |-> "", category |-> category, display |-> <<>>,
     cmd |-> cmd, width |-> width, description |-> description]

\* The inner loop, lines 97-105: one line per command of the bucket.
RECURSIVE print_bucket(_, _, _, _, _)
print_bucket(cs, category, cmds, i, width) ==
    IF i > Len(cmds) THEN [lines |-> <<>>, raised |-> FALSE]
    ELSE LET d == find_description(cs, cmds[i], 1)
         IN IF d.raised THEN [lines |-> <<>>, raised |-> TRUE]
            ELSE LET rest == print_bucket(cs, category, cmds, i + 1, width)
                 IN [lines |-> <<CommandLine(category, cmds[i], width, d.text)>>
                                   \o rest.lines,
                     raised |-> rest.raised]

\* The outer loop, lines 90-105; d is COMMANDS_BY_CATEGORY as the loop leaves it.
RECURSIVE print_categories(_, _, _, _, _)
print_categories(cs, d, categories, i, width) ==
    IF i > Len(categories) THEN [lines |-> <<>>, raised |-> FALSE, cbc |-> d]
    ELSE LET d1 == defaultdict_getitem(d, categories[i])
             b == print_bucket(cs, categories[i], sorted(d1[categories[i]]), 1, width)
             head == <<CategoryLine(categories[i])>> \o b.lines
         IN IF b.raised THEN [lines |-> head, raised |-> TRUE, cbc |-> d1]
            ELSE LET rest == print_categories(cs, d1, categories, i + 1, width)
                 IN [lines |-> head \o rest.lines, raised |-> rest.raised,
                     cbc |-> rest.cbc]

\* print_commands: what it prints, whether it raised, and COMMANDS_BY_CATEGORY
\* as it leaves it.
print_commands(rc, cs, cbc) ==
    IF DOMAIN cbc = {}
    THEN [lines |-> <<TextLine("Available Commands:"),
                      TextLine("No commands registered yet.")>>,
          raised |-> FALSE, cbc |-> cbc]
    ELSE IF AllBucketEntries(cbc) = {}
    THEN [lines |-> <<TextLine("Available Commands:")>>, raised |-> TRUE, cbc |-> cbc]
    ELSE LET r == print_categories(cs, cbc, listed_categories(cbc), 1,
                                   max_length(cbc) + 2)
         IN IF r.raised
            THEN [lines |-> <<TextLine("Available Commands:")>> \o r.lines,
                  raised |-> TRUE, cbc |-> r.cbc]
            ELSE [lines |-> <<TextLine("Available Commands:")>> \o r.lines
                              \o <<[TextLine("Total commands:") EXCEPT
                                       !.width = Cardinality(DOMAIN rc)]>>,
                  raised |-> FALSE, cbc |-> r.cbc]

\* The registrations of this specification: two names, and schemas that are
\* well formed or lack the "function" key.
PrintNames == {"ping", "add"}

MalformedSchema == [type |-> "function"]

PrintSchemas ==
    {[function |-> [name |-> n, description |-> d]] : n \in PrintNames, d \in Descriptions}
        \cup {MalformedSchema}

PrintCommands ==
    /\ ~stdout.printed
    /\ LET r == print_commands(REGISTERED_COMMANDS, COMMAND_SCHEMAS, COMMANDS_BY_CATEGORY)
       IN /\ stdout' = [printed |-> TRUE, raised |-> r.raised, lines |-> r.lines]
          /\ COMMANDS_BY_CATEGORY' = r.cbc
    /\ UNCHANGED <<REGISTERED_COMMANDS, COMMAND_SCHEMAS, sys_modules, callLog, envCI,
                   hasInit, broken, pc, catIdx, cmdIdx, runs, completed, invoked, wpc,
                   observed, fs, denied, result, github, disk, run>>

NextPrint ==
    \/ \E name \in PrintNames, func \in Funcs, schema \in PrintSchemas :
          RegisterCall(name, func, schema)
    \/ PrintCommands

SpecPrint == Init /\ [][NextPrint]_vars

(***************************************************************************)
(* The file commands of commands/file_ops (specification SpecFileOps).     *)
(* A command receives its arguments from the caller as decoded JSON, so a  *)
(* path argument is a str naming one of Nodes or an object that is no      *)
(* path, and a content argument is a str or not.  The contents of a file   *)
(* are followed up to what the commands distinguish: empty, text that is   *)
(* not JSON, or a JSON document.                                           *)
(***************************************************************************)

\* A path argument that is a str.
StrPath(n) == [isstr |-> TRUE, path |-> n]

\* A path argument that is neither str, bytes, os.PathLike nor int, e.g. {}.
NotAPath == [isstr |-> FALSE, path |-> ""]

PathArgs == {StrPath(n) : n \in Nodes} \cup {NotAPath}

\* Content arguments: two str values and a value that is no str.
ContentArgs == {"text", "json", "not_a_str"}

\* Data arguments of save_json: a serializable dict and an object json cannot
\* serialize.
DataArgs == {"dict", "unserializable"}

EditTypes == {"replace", "append", "insert_at_line"}

\* edit_operations arguments of advanced_edit_file, by the first thing the
\* loop over them meets.
OperationArgs ==
    {"valid", "missing_line_number", "invalid_line_number", "unsupported_operation",
     "not_dicts"}

\* The outcome of one library call: a value, or an exception.
Ok(f, val) == [ok |-> TRUE, exc |-> "", fs |-> f, val |-> val]

Fail(f, exc) == [ok |-> FALSE, exc |-> exc, fs |-> f, val |-> ""]

\* The outcome of a command function: it returns a value, returns its error
\* value, or an exception leaves it.
Return(f, val) == [fs |-> f, kind |-> "returned", detail |-> val]

ReturnError(f, msg) == [fs |-> f, kind |-> "error", detail |-> msg]

Raise(f, exc) == [fs |-> f, kind |-> "raised", detail |-> exc]

\* try: <body> except Exception as e: return <error value built from e>
except_Exception(r) ==
    IF r.kind = "raised" THEN ReturnError(r.fs, r.detail) ELSE r

\* os.path.dirname(path) for a path of Nodes.
dirname(n) ==
    IF n = "output/sub/data.json" THEN "output/sub"
    ELSE IF n \in {"elsewhere/notes.txt", "elsewhere/.gitconfig"} THEN "elsewhere"
    ELSE "output"

\* What stops the operating system from reaching the entry n in its directory.
parent_error(f, d, n) ==
    IF dirname(n) \notin Nodes THEN ""
    ELSE IF f[dirname(n)].kind = "absent" THEN "FileNotFoundError"
    ELSE IF f[dirname(n)].kind = "file" THEN "NotADirectoryError"
    ELSE IF dirname(n) \in d THEN "PermissionError"
    ELSE ""

\* os.path.exists(path): TypeError for an object that is no path; OSError and
\* ValueError of the stat call are turned into False.
os_path_exists(f, d, p) ==
    IF ~p.isstr THEN Fail(f, "TypeError")
    ELSE IF parent_error(f, d, p.path) # "" THEN Ok(f, "False")
    ELSE Ok(f, IF f[p.path].kind # "absent" THEN "True" ELSE "False")

\* os.path.abspath(path)
os_path_abspath(f, p) ==
    IF ~p.isstr THEN Fail(f, "TypeError") ELSE Ok(f, p.path)

\* The characters of the paths and patterns the path check works on.
Chars(s) ==
    CASE s = "output/sub" ->
           <<"o", "u", "t", "p", "u", "t", "/", "s", "u", "b">>
      [] s = "output/sub/data.json" ->
           <<"o", "u", "t", "p", "u", "t", "/", "s", "u", "b", "/", "d", "a", "t", "a", ".", "j", "s", "o", "n">>
      [] s = "elsewhere/notes.txt" ->
           <<"e", "l", "s", "e", "w", "h", "e", "r", "e", "/", "n", "o", "t", "e", "s", ".", "t", "x", "t">>
      [] s = "elsewhere/.gitconfig" ->
           <<"e", "l", "s", "e", "w", "h", "e", "r", "e", "/", ".", "g", "i", "t", "c", "o", "n", "f", "i", "g">>
      [] s = "output" ->
           <<"o", "u", "t", "p", "u", "t">>
      [] s = "clix" ->
           <<"c", "l", "i", "x">>
      [] s = ".git" ->
           <<".", "g", "i", "t">>

\* core.config.OUTPUT_DIR
OUTPUT_DIR == "output"

\* a.startswith(b), on characters
startswith(a, b) == Len(b) <= Len(a) /\ SubSeq(a, 1, Len(b)) = b

\* b in a, on characters
contains(a, b) ==
    \E i \in 1..(Len(a) - Len(b) + 1) : SubSeq(a, i, i + Len(b) - 1) = b

\* The check of read_file (lines 32-53) and write_file (lines 28-49): the
\* absolute path starts with OUTPUT_DIR or with OUTPUT_DIR joined with its own
\* base name, or contains "clix" or ".git".  Paths are relative to the working
\* directory, which os.path.abspath puts in front of both sides.
is_within_output(abs_path) ==
    LET output_dir == Chars(OUTPUT_DIR)
        doubled_pattern == output_dir \o <<"/">> \o output_dir
    IN \/ startswith(Chars(abs_path), output_dir)
       \/ startswith(Chars(abs_path), doubled_pattern)
       \/ \E segment \in {"clix", ".git"} : contains(Chars(abs_path), Chars(segment))

\* open(path, 'r', encoding='utf-8')
open_r(f, d, p) ==
    IF ~p.isstr THEN Fail(f, "TypeError")
    ELSE IF parent_error(f, d, p.path) # "" THEN Fail(f, parent_error(f, d, p.path))
    ELSE IF f[p.path].kind = "absent" THEN Fail(f, "FileNotFoundError")
    ELSE IF f[p.path].kind = "dir" THEN Fail(f, "IsADirectoryError")
    ELSE IF p.path \in d THEN Fail(f, "PermissionError")
    ELSE Ok(f, f[p.path].content)

\* open(path, mode, encoding='utf-8') for mode 'w' or 'a': 'w' truncates, both
\* create a missing file.
open_w(f, d, p, mode) ==
    IF ~p.isstr THEN Fail(f, "TypeError")
    ELSE IF parent_error(f, d, p.path) # "" THEN Fail(f, parent_error(f, d, p.path))
    ELSE IF f[p.path].kind = "dir" THEN Fail(f, "IsADirectoryError")
    ELSE IF p.path \in d THEN Fail(f, "PermissionError")
    ELSE IF mode = "w" \/ f[p.path].kind = "absent"
         THEN Ok([f EXCEPT ![p.path] = File("empty")], "")
    ELSE Ok(f, "")

\* The contents of a file after the str b was added to the contents a.
concat(a, b) == IF a = "empty" THEN b ELSE "text"

\* file.write(content)
file_write(f, n, content) ==
    IF content = "not_a_str" THEN Fail(f, "TypeError")
    ELSE Ok([f EXCEPT ![n] = File(concat(f[n].content, content))], "")

\* os.makedirs(directory, exist_ok=exist_ok) for a path of Nodes: missing
\* parents are created first.
os_makedirs(f, d, n, exist_ok) ==
    LET withParent ==
            IF dirname(n) \in Nodes /\ f[dirname(n)].kind = "absent"
            THEN IF dirname(n) \in d THEN Fail(f, "PermissionError")
                 ELSE Ok([f EXCEPT ![dirname(n)] = Dir], "")
            ELSE IF parent_error(f, d, n) # "" THEN Fail(f, parent_error(f, d, n))
            ELSE Ok(f, "")
    IN IF ~withParent.ok THEN withParent
       ELSE IF withParent.fs[n].kind = "dir"
            THEN IF exist_ok THEN withParent ELSE Fail(withParent.fs, "FileExistsError")
       ELSE IF withParent.fs[n].kind = "file" THEN Fail(withParent.fs, "FileExistsError")
       ELSE IF n \in d THEN Fail(withParent.fs, "PermissionError")
       ELSE Ok([withParent.fs EXCEPT ![n] = Dir], "")

\* directory = os.path.dirname(file_path)
\* if directory and not os.path.exists(directory): os.makedirs(directory)
ensure_directory(f, d, p) ==
    IF ~p.isstr THEN Fail(f, "TypeError")
    ELSE IF dirname(p.path) \notin Nodes \/ f[dirname(p.path)].kind # "absent"
         THEN Ok(f, "")
    ELSE os_makedirs(f, d, dirname(p.path), FALSE)

\* os.remove(path)
os_remove(f, d, p) ==
    IF ~p.isstr THEN Fail(f, "TypeError")
    ELSE IF parent_error(f, d, p.path) # "" THEN Fail(f, parent_error(f, d, p.path))
    ELSE IF f[p.path].kind = "absent" THEN Fail(f, "FileNotFoundError")
    ELSE IF f[p.path].kind = "dir" THEN Fail(f, "IsADirectoryError")
    ELSE IF p.path \in d THEN Fail(f, "PermissionError")
    ELSE Ok([f EXCEPT ![p.path] = Absent], "")

\* os.listdir(path)
os_listdir(f, d, p) ==
    IF ~p.isstr THEN Fail(f, "TypeError")
    ELSE IF parent_error(f, d, p.path) # "" THEN Fail(f, parent_error(f, d, p.path))
    ELSE IF f[p.path].kind = "absent" THEN Fail(f, "FileNotFoundError")
    ELSE IF f[p.path].kind = "file" THEN Fail(f, "NotADirectoryError")
    ELSE IF p.path \in d THEN Fail(f, "PermissionError")
    ELSE Ok(f, "listing")

\* json.load(file)
json_load(f, content) ==
    IF content = "json" THEN Ok(f, "data") ELSE Fail(f, "JSONDecodeError")

\* json.dump(data, file, indent=2)
json_dump(f, n, data) ==
    IF data = "unserializable" THEN Fail(f, "TypeError")
    ELSE Ok([f EXCEPT ![n] = File("json")], "")

\* file_exists: the body is the single return statement, with no try.
file_exists(f, d, file_path) ==
    LET e == os_path_exists(f, d, file_path)
    IN IF e.ok THEN Return(f, e.val) ELSE Raise(f, e.exc)

read_file(f, d, file_path) ==
    except_Exception(
        LET e == os_path_exists(f, d, file_path)
        IN IF ~e.ok THEN Raise(f, e.exc)
           ELSE IF e.val = "False" THEN ReturnError(f, "Error: File not found")
           ELSE IF ~is_within_output(os_path_abspath(f, file_path).val)
                THEN ReturnError(f, "Security Error")
           ELSE LET o == open_r(f, d, file_path)
                IN IF o.ok THEN Return(f, o.val) ELSE Raise(f, o.exc))

write_file(f, d, file_path, content) ==
    except_Exception(
        LET a == os_path_abspath(f, file_path)
        IN IF ~a.ok THEN Raise(f, a.exc)
           ELSE IF ~is_within_output(a.val) THEN ReturnError(f, "Security Error")
           ELSE LET m == ensure_directory(f, d, file_path)
                IN IF ~m.ok THEN Raise(m.fs, m.exc)
                   ELSE LET o == open_w(m.fs, d, file_path, "w")
                        IN IF ~o.ok THEN Raise(o.fs, o.exc)
                           ELSE LET w == file_write(o.fs, file_path.path, content)
                                IN IF w.ok THEN Return(w.fs, "Successfully wrote")
                                   ELSE Raise(w.fs, w.exc))

append_file(f, d, file_path, content) ==
    except_Exception(
        LET m == ensure_directory(f, d, file_path)
        IN IF ~m.ok THEN Raise(m.fs, m.exc)
           ELSE LET o == open_w(m.fs, d, file_path, "a")
                IN IF ~o.ok THEN Raise(o.fs, o.exc)
                   ELSE LET w == file_write(o.fs, file_path.path, content)
                        IN IF w.ok THEN Return(w.fs, "Successfully appended")
                           ELSE Raise(w.fs, w.exc))

delete_file(f, d, file_path) ==
    except_Exception(
        LET e == os_path_exists(f, d, file_path)
        IN IF ~e.ok THEN Raise(f, e.exc)
           ELSE IF e.val = "False" THEN Return(f, "does not exist")
           ELSE LET r == os_remove(f, d, file_path)
                IN IF r.ok THEN Return(r.fs, "Successfully deleted") ELSE Raise(r.fs, r.exc))

create_directory(f, d, directory_path) ==
    except_Exception(
        IF ~directory_path.isstr THEN Raise(f, "TypeError")
        ELSE LET m == os_makedirs(f, d, directory_path.path, TRUE)
             IN IF m.ok THEN Return(m.fs, "Successfully created directory")
                ELSE Raise(m.fs, m.exc))

list_directory(f, d, directory_path) ==
    except_Exception(
        LET l == os_listdir(f, d, directory_path)
        IN IF l.ok THEN Return(f, l.val) ELSE Raise(f, l.exc))

load_json(f, d, file_path) ==
    except_Exception(
        LET o == open_r(f, d, file_path)
        IN IF ~o.ok THEN Raise(f, o.exc)
           ELSE LET j == json_load(f, o.val)
                IN IF j.ok THEN Return(f, j.val) ELSE Raise(f, j.exc))

save_json(f, d, file_path, data) ==
    except_Exception(
        LET m == ensure_directory(f, d, file_path)
        IN IF ~m.ok THEN Raise(m.fs, m.exc)
           ELSE LET o == open_w(m.fs, d, file_path, "w")
                IN IF ~o.ok THEN Raise(o.fs, o.exc)
                   ELSE LET j == json_dump(o.fs, file_path.path, data)
                        IN IF j.ok THEN Return(j.fs, "Successfully saved JSON")
                           ELSE Raise(j.fs, j.exc))

edit_file(f, d, file_path, content, edit_type) ==
    except_Exception(
        LET e == os_path_exists(f, d, file_path)
        IN IF ~e.ok THEN Raise(f, e.exc)
           ELSE IF e.val = "False" THEN ReturnError(f, "Error: File does not exist")
           ELSE LET o == open_r(f, d, file_path)
                IN IF ~o.ok THEN Raise(f, o.exc)
                   ELSE IF edit_type \notin {"replace", "append"}
                        THEN ReturnError(f, "Error: Unsupported edit type")
                   ELSE IF edit_type = "append" /\ content = "not_a_str"
                        THEN Raise(f, "TypeError")
                   ELSE LET new_content ==
                                IF edit_type = "replace" THEN content
                                ELSE IF o.val = "empty" THEN content ELSE "text"
                            w == open_w(f, d, file_path, "w")
                        IN IF ~w.ok THEN Raise(w.fs, w.exc)
                           ELSE LET x == file_write(w.fs, file_path.path, new_content)
                                IN IF x.ok THEN Return(x.fs, "Successfully edited")
                                   ELSE Raise(x.fs, x.exc))

advanced_edit_file(f, d, file_path, edit_operations) ==
    except_Exception(
        LET e == os_path_exists(f, d, file_path)
        IN IF ~e.ok THEN Raise(f, e.exc)
           ELSE IF e.val = "False" THEN ReturnError(f, "Error: File does not exist")
           ELSE LET o == open_r(f, d, file_path)
                IN IF ~o.ok THEN Raise(f, o.exc)
                   ELSE IF edit_operations = "not_dicts" THEN Raise(f, "AttributeError")
                   ELSE IF edit_operations = "missing_line_number"
                        THEN ReturnError(f, "Error: Missing line_number in edit operation")
                   ELSE IF edit_operations = "invalid_line_number"
                        THEN ReturnError(f, "Error: Invalid line number")
                   ELSE IF edit_operations = "unsupported_operation"
                        THEN ReturnError(f, "Error: Unsupported operation")
                   ELSE LET w == open_w(f, d, file_path, "w")
                        IN IF ~w.ok THEN Raise(w.fs, w.exc)
                           ELSE Return([w.fs EXCEPT ![file_path.path] = File("text")],
                                       "Successfully applied"))

\* The variables the file commands leave alone.
registryVars ==
    <<REGISTERED_COMMANDS, COMMAND_SCHEMAS, COMMANDS_BY_CATEGORY, sys_modules, callLog,
      envCI, hasInit, broken, pc, catIdx, cmdIdx, runs, completed, invoked, wpc,
      observed, stdout, github, disk, run>>

\* The outcome r of a call of the command cmd, as the caller sees it.
Outcome(cmd, r) == [cmd |-> cmd, kind |-> r.kind, detail |-> r.detail]

\* A call of file_exists with any arguments.
FileExists ==
    \E p \in PathArgs :
        LET r == file_exists(fs, denied, p)
        IN /\ fs' = r.fs
           /\ result' = Outcome("file_exists", r)
           /\ UNCHANGED <<denied, registryVars>>

\* A call of read_file with any arguments.
ReadFile ==
    \E p \in PathArgs :
        LET r == read_file(fs, denied, p)
        IN /\ fs' = r.fs
           /\ result' = Outcome("read_file", r)
           /\ UNCHANGED <<denied, registryVars>>

\* A call of write_file with any arguments.
WriteFile ==
    \E p \in PathArgs, c \in ContentArgs :
        LET r == write_file(fs, denied, p, c)
        IN /\ fs' = r.fs
           /\ result' = Outcome("write_file", r)
           /\ UNCHANGED <<denied, registryVars>>

\* A call of append_file with any arguments.
AppendFile ==
    \E p \in PathArgs, c \in ContentArgs :
        LET r == append_file(fs, denied, p, c)
        IN /\ fs' = r.fs
           /\ result' = Outcome("append_file", r)
           /\ UNCHANGED <<denied, registryVars>>

\* A call of delete_file with any arguments.
DeleteFile ==
    \E p \in PathArgs :
        LET r == delete_file(fs, denied, p)
        IN /\ fs' = r.fs
           /\ result' = Outcome("delete_file", r)
           /\ UNCHANGED <<denied, registryVars>>

\* A call of create_directory with any arguments.
CreateDirectory ==
    \E p \in PathArgs :
        LET r == create_directory(fs, denied, p)
        IN /\ fs' = r.fs
           /\ result' = Outcome("create_directory", r)
           /\ UNCHANGED <<denied, registryVars>>

\* A call of list_directory with any arguments.
ListDirectory ==
    \E p \in PathArgs :
        LET r == list_directory(fs, denied, p)
        IN /\ fs' = r.fs
           /\ result' = Outcome("list_directory", r)
           /\ UNCHANGED <<denied, registryVars>>

\* A call of load_json with any arguments.
LoadJson ==
    \E p \in PathArgs :
        LET r == load_json(fs, denied, p)
        IN /\ fs' = r.fs
           /\ result' = Outcome("load_json", r)
           /\ UNCHANGED <<denied, registryVars>>

\* A call of save_json with any arguments.
SaveJson ==
    \E p \in PathArgs, data \in DataArgs :
        LET r == save_json(fs, denied, p, data)
        IN /\ fs' = r.fs
           /\ result' = Outcome("save_json", r)
           /\ UNCHANGED <<denied, registryVars>>

\* A call of edit_file with any arguments.
EditFile ==
    \E p \in PathArgs, c \in ContentArgs, t \in EditTypes :
        LET r == edit_file(fs, denied, p, c, t)
        IN /\ fs' = r.fs
           /\ result' = Outcome("edit_file", r)
           /\ UNCHANGED <<denied, registryVars>>

\* A call of advanced_edit_file with any arguments.
AdvancedEditFile ==
    \E p \in PathArgs, ops \in OperationArgs :
        LET r == advanced_edit_file(fs, denied, p, ops)
        IN /\ fs' = r.fs
           /\ result' = Outcome("advanced_edit_file", r)
           /\ UNCHANGED <<denied, registryVars>>

\* The operating system starts or stops refusing access to one path.
SetPermission ==
    /\ \E n \in Nodes :
          denied' = IF n \in denied THEN denied \ {n} ELSE IF denied = {} THEN {n} ELSE denied
    /\ denied' # denied
    /\ UNCHANGED <<fs, result, registryVars>>

NextFileOps ==
    \/ FileExists
    \/ ReadFile
    \/ WriteFile
    \/ AppendFile
    \/ DeleteFile
    \/ CreateDirectory
    \/ ListDirectory
    \/ LoadJson
    \/ SaveJson
    \/ EditFile
    \/ AdvancedEditFile
    \/ SetPermission

SpecFileOps == Init /\ [][NextFileOps]_vars

\* C20: no exception escapes a file command: whatever fails in it (a missing
\* file, a refused access, malformed content or a malformed argument), the
\* command returns.
C20_NoExceptionEscapes == result.kind # "raised"

(***************************************************************************)
(* The pull request commands of commands/github_ops (specification         *)
(* SpecGithub).  Every call of the GitHub API is one step: between two     *)
(* calls other users act on the repository, and every call either returns  *)
(* or raises GithubException or another exception (a network failure).     *)
(* github holds the pull request and the branch as GitHub has them; run    *)
(* holds the position of the command, its arguments and locals, the calls  *)
(* it made, and what it returned.                                          *)
(***************************************************************************)

\* Commands called in one behaviour.
MaxCommands == 2

\* Files in the files argument of github_add_files.
MaxFiles == 2

\* How a call of the GitHub API ends.
ApiOutcomes == {"ok", "GithubException", "ConnectionError"}

\* The repository at the start: one pull request, open or closed, and a
\* branch whose reference points to commit 0.
GithubStates ==
    [state : {"open", "closed"}, merged : {FALSE}, mergeable : {"None", "True", "False"},
     comments : {0}, head_deleted : {FALSE}, ref : {0}, blobs : {0}, trees : {0},
     commits : {0}]

\* The command has returned nothing yet.
NoReturn == [status |-> "none", error |-> "", commented |-> "absent"]

\* return {"success": True, ..., "commented": commented}
Success(commented) == [status |-> "success", error |-> "", commented |-> commented]

\* return {"error": msg, ...}, with the key "commented" where the code sets it
Error(msg, commented) == [status |-> "error", error |-> msg, commented |-> commented]

\* str(commented) for the local variable of github_close_pr / github_reopen_pr
PyBool(b) == IF b THEN "True" ELSE "False"

\* What repo.get_pull returns: the pull request as GitHub has it now.
get_pull == [state |-> github.state, merged |-> github.merged, mergeable |-> github.mergeable]

\* A call of a command begins: arguments are bound, no API call made yet.
Begin(command, comment, delete_branch, files) ==
    [pc |-> command, command |-> command, comment |-> comment,
     delete_branch |-> delete_branch, files |-> files,
     pr |-> [state |-> "", merged |-> FALSE, mergeable |-> ""],
     commented |-> FALSE, calls |-> <<>>, i |-> 0, element_list |-> 0, ref_before |-> github.ref,
     pr_before |-> get_pull, returned |-> NoReturn, n |-> run.n + 1]

\* The command returns r.
Returned(r) == [run EXCEPT !.pc = "returned", !.returned = r]

\* The handler of the outer try: except GithubException / except Exception.
\* Neither puts the key "commented" into the returned dictionary.
OuterExcept(outcome) ==
    Returned(Error(IF outcome = "GithubException" THEN "GitHub API error"
                   ELSE "Failed", "absent"))

\* The arguments: whether a comment is supplied; the files of github_add_files
\* as a list whose entries are well formed or lack the key "content".
FileLists ==
    UNION {[1..k -> {"file", "no_content"}] : k \in 0..MaxFiles}

InitGithub ==
    /\ REGISTERED_COMMANDS = <<>>
    /\ COMMAND_SCHEMAS = <<>>
    /\ COMMANDS_BY_CATEGORY = <<>>
    /\ sys_modules = {}
    /\ callLog = <<>>
    /\ envCI = ""
    /\ hasInit = SrcPackages
    /\ broken = {}
    /\ pc = "idle"
    /\ catIdx = 1
    /\ cmdIdx = 1
    /\ runs = 0
    /\ completed = 0
    /\ invoked = 0
    /\ wpc = "idle"
    /\ observed = NoObservation
    /\ stdout = NotPrinted
    /\ fs = EmptyFileSystem
    /\ denied = {}
    /\ result = NoResult
    /\ disk = <<>>
    /\ github \in GithubStates
    /\ run = NoCommand

\* The variables the GitHub commands leave alone.
localVars ==
    <<REGISTERED_COMMANDS, COMMAND_SCHEMAS, COMMANDS_BY_CATEGORY, sys_modules, callLog,
      envCI, hasInit, broken, pc, catIdx, cmdIdx, runs, completed, invoked, wpc,
      observed, stdout, fs, denied, result, disk>>

\* The caller calls one of the commands.
CallCommand ==
    /\ run.pc \in {"idle", "returned"}
    /\ run.n < MaxCommands
    /\ \/ \E command \in {"merge pull request", "close pull request",
                          "reopen pull request"}, comment \in BOOLEAN :
             run' = Begin(command, comment, FALSE, <<>>)
       \/ run' = Begin("merge pull request", FALSE, TRUE, <<>>)
       \/ \E files \in FileLists : run' = Begin("add files", FALSE, FALSE, files)
    /\ UNCHANGED <<github, localVars>>

\* Another user closes the pull request; the mergeable flag GitHub reports for
\* it stays what it was.
OtherUserCloses ==
    /\ github.state = "open"
    /\ github' = [github EXCEPT !.state = "closed"]
    /\ UNCHANGED <<run, localVars>>

\* Another user merges the pull request.
OtherUserMerges ==
    /\ github.state = "open" /\ github.mergeable = "True"
    /\ github' = [github EXCEPT !.state = "closed", !.merged = TRUE]
    /\ UNCHANGED <<run, localVars>>

\* GitHub finishes computing whether the pull request is mergeable.
ComputeMergeable ==
    /\ github.mergeable = "None"
    /\ \E m \in {"True", "False"} : github' = [github EXCEPT !.mergeable = m]
    /\ UNCHANGED <<run, localVars>>

\* The call api is added to the calls of the command, with the pull request
\* as the command fetched it last.
Called(r, api, ok) ==
    [r EXCEPT !.calls = Append(@, [api |-> api, pr |-> r.pr, ok |-> ok])]

(***************************************************************************)
(* github_merge_pr                                                         *)
(***************************************************************************)

\* Lines 53-80: fetch the pull request; return an error when it is merged or
\* closed.
MergeGetPull ==
    /\ run.pc = "merge pull request"
    /\ \E outcome \in ApiOutcomes :
          run' = IF outcome # "ok" THEN OuterExcept(outcome)
                 ELSE IF get_pull.merged
                      THEN [Returned(Error("Pull request is already merged.", "absent"))
                               EXCEPT !.pr = get_pull]
                 ELSE IF get_pull.state = "closed"
                      THEN [Returned(Error("Pull request is closed but not merged.",
                                           "absent")) EXCEPT !.pr = get_pull]
                 ELSE [run EXCEPT !.pr = get_pull, !.pc = "merge: refresh"]
    /\ UNCHANGED <<github, localVars>>

\* Lines 83-100: fetch the pull request again; return an error when mergeable
\* is None or False.  merged and state are not looked at again.
refresh(pr) ==
    IF pr.mergeable = "None"
    THEN [Returned(Error("GitHub is still computing whether this PR is mergeable.",
                         "absent")) EXCEPT !.pr = pr]
    ELSE IF pr.mergeable = "False"
         THEN [Returned(Error("Pull request is not mergeable.", "absent")) EXCEPT !.pr = pr]
    ELSE [run EXCEPT !.pr = pr, !.pc = "merge: merge"]

MergeRefresh ==
    /\ run.pc = "merge: refresh"
    /\ \E outcome \in ApiOutcomes :
          run' = IF outcome # "ok" THEN OuterExcept(outcome) ELSE refresh(get_pull)
    /\ UNCHANGED <<github, localVars>>

\* Line 114: pr.merge(**merge_args).  GitHub merges an open, mergeable pull
\* request and answers 405 for any other; lines 139-150 turn the
\* GithubException into an error result.
MergeCall ==
    /\ run.pc = "merge: merge"
    /\ \E outcome \in ApiOutcomes :
          LET accepted == github.state = "open" /\ github.mergeable = "True"
              called == Called(run, "merge", outcome = "ok" /\ accepted)
          IN IF outcome = "ok" /\ accepted
             THEN /\ github' = [github EXCEPT !.state = "closed", !.merged = TRUE]
                  /\ run' = IF run.delete_branch
                            THEN [called EXCEPT !.pc = "merge: delete branch"]
                            ELSE [called EXCEPT !.pc = "returned",
                                                !.returned = Success("absent")]
             ELSE /\ github' = github
                  /\ run' = IF outcome = "ConnectionError"
                            THEN [called EXCEPT !.pc = "returned",
                                                !.returned = Error("Failed", "absent")]
                            ELSE [called EXCEPT
                                     !.pc = "returned",
                                     !.returned = Error("Failed to merge pull request",
                                                        "absent")]
    /\ UNCHANGED localVars

\* Lines 127-135: delete the head branch; a GithubException is recorded in the
\* result, which stays a success.
MergeDeleteBranch ==
    /\ run.pc = "merge: delete branch"
    /\ \E outcome \in ApiOutcomes :
          /\ github' = IF outcome = "ok" THEN [github EXCEPT !.head_deleted = TRUE]
                       ELSE github
          /\ run' = IF outcome = "ConnectionError"
                    THEN [Called(run, "delete", outcome = "ok") EXCEPT
                             !.pc = "returned", !.returned = Error("Failed", "absent")]
                    ELSE [Called(run, "delete", outcome = "ok") EXCEPT
                             !.pc = "returned", !.returned = Success("absent")]
    /\ UNCHANGED localVars

(***************************************************************************)
(* github_close_pr                                                         *)
(***************************************************************************)

\* Line 46: fetch the pull request.
CloseGetPull ==
    /\ run.pc = "close pull request"
    /\ \E outcome \in ApiOutcomes :
          run' = IF outcome # "ok" THEN OuterExcept(outcome)
                 ELSE [run EXCEPT !.pr = get_pull,
                                  !.pc = IF run.comment THEN "close: comment"
                                         ELSE "close: edit"]
    /\ UNCHANGED <<github, localVars>>

\* pr.create_issue_comment(comment) inside its own try: on success commented
\* becomes True and the command goes on to next; a GithubException returns
\* the error of lines 58-63 (86-95 in github_reopen_pr); any other exception
\* reaches the outer handler.
create_issue_comment(outcome, next) ==
    IF outcome = "ok"
    THEN [Called(run, "create_issue_comment", TRUE) EXCEPT !.commented = TRUE, !.pc = next]
    ELSE IF outcome = "GithubException"
         THEN Returned(Error("Failed to add comment to pull request", "absent"))
    ELSE OuterExcept(outcome)

\* Lines 51-63.
CloseComment ==
    /\ run.pc = "close: comment"
    /\ \E outcome \in ApiOutcomes :
          /\ run' = create_issue_comment(outcome, "close: edit")
          /\ github' = IF outcome = "ok" THEN [github EXCEPT !.comments = @ + 1]
                       ELSE github
    /\ UNCHANGED localVars

\* Lines 65-85: pr.edit(state="closed").
CloseEdit ==
    /\ run.pc = "close: edit"
    /\ \E outcome \in ApiOutcomes :
          /\ github' = IF outcome = "ok" THEN [github EXCEPT !.state = "closed"]
                       ELSE github
          /\ run' = IF outcome = "ok"
                    THEN [Called(run, "edit", outcome = "ok") EXCEPT
                             !.pc = "returned",
                             !.returned = Success(PyBool(run.commented))]
                    ELSE IF outcome = "GithubException"
                         THEN [Called(run, "edit", outcome = "ok") EXCEPT
                                  !.pc = "returned",
                                  !.returned = Error("Failed to close pull request",
                                                     PyBool(run.commented))]
                    ELSE [Called(run, "edit", outcome = "ok") EXCEPT
                             !.pc = "returned", !.returned = Error("Failed", "absent")]
    /\ UNCHANGED localVars

(***************************************************************************)
(* github_reopen_pr                                                        *)
(***************************************************************************)

\* Lines 47-73: fetch the pull request; return an error when it is merged or
\* already open.
ReopenGetPull ==
    /\ run.pc = "reopen pull request"
    /\ \E outcome \in ApiOutcomes :
          run' = IF outcome # "ok" THEN OuterExcept(outcome)
                 ELSE IF get_pull.merged
                      THEN [Returned(Error("Pull request is already merged.", "absent"))
                               EXCEPT !.pr = get_pull]
                 ELSE IF get_pull.state = "open"
                      THEN [Returned(Error("Pull request is already open.", "absent"))
                               EXCEPT !.pr = get_pull]
                 ELSE [run EXCEPT !.pr = get_pull,
                                  !.pc = IF run.comment THEN "reopen: comment"
                                         ELSE "reopen: edit"]
    /\ UNCHANGED <<github, localVars>>

\* Lines 78-95.
ReopenComment ==
    /\ run.pc = "reopen: comment"
    /\ \E outcome \in ApiOutcomes :
          /\ run' = create_issue_comment(outcome, "reopen: edit")
          /\ github' = IF outcome = "ok" THEN [github EXCEPT !.comments = @ + 1]
                       ELSE github
    /\ UNCHANGED localVars

\* Line 99: pr.edit(state="open").  GitHub refuses to reopen a merged pull
\* request.
ReopenEdit ==
    /\ run.pc = "reopen: edit"
    /\ \E outcome \in ApiOutcomes :
          LET accepted == ~github.merged
          IN IF outcome = "ok" /\ accepted
             THEN /\ github' = [github EXCEPT !.state = "open"]
                  /\ run' = [Called(run, "edit", outcome = "ok" /\ accepted) EXCEPT !.pc = "reopen: refresh"]
             ELSE /\ github' = github
                  /\ run' = IF outcome = "ConnectionError"
                            THEN [Called(run, "edit", outcome = "ok" /\ accepted) EXCEPT
                                     !.pc = "returned",
                                     !.returned = Error("Failed", "absent")]
                            ELSE [Called(run, "edit", outcome = "ok" /\ accepted) EXCEPT
                                     !.pc = "returned",
                                     !.returned = Error("Failed to reopen pull request",
                                                        PyBool(run.commented))]
    /\ UNCHANGED localVars

\* Lines 102-114: fetch the pull request again and return the result; the
\* fetch is inside the try of the state change.
ReopenRefresh ==
    /\ run.pc = "reopen: refresh"
    /\ \E outcome \in ApiOutcomes :
          run' = IF outcome = "ok"
                 THEN [Returned(Success(PyBool(run.commented))) EXCEPT !.pr = get_pull]
                 ELSE IF outcome = "GithubException"
                      THEN Returned(Error("Failed to reopen pull request",
                                          PyBool(run.commented)))
                 ELSE OuterExcept(outcome)
    /\ UNCHANGED <<github, localVars>>

(***************************************************************************)
(* github_add_files                                                        *)
(***************************************************************************)

\* Lines 56-58: read the branch reference and its commit.
AddGetRef ==
    /\ run.pc = "add files"
    /\ \E outcome \in ApiOutcomes :
          run' = IF outcome # "ok" THEN OuterExcept(outcome)
                 ELSE [run EXCEPT !.pc = "add: blobs"]
    /\ UNCHANGED <<github, localVars>>

\* A file that cannot be processed is left out and the loop goes on.
process_file_skipping_failures(file_info, outcome) ==
    IF file_info = "file" /\ outcome = "ok"
    THEN [Called(run, "create_git_blob", TRUE) EXCEPT
             !.element_list = @ + 1, !.i = @ + 1]
    ELSE [run EXCEPT !.i = @ + 1]

\* Lines 63-85, the body of the loop over files: file_info["content"] raises
\* KeyError for an entry without content, create_git_blob may raise; the
\* handler of the loop body returns the error for any exception.
process_file(file_info, outcome) ==
    IF file_info = "no_content"
    THEN Returned(Error("Failed to process file", "absent"))
    ELSE IF outcome = "ok"
         THEN [Called(run, "create_git_blob", TRUE) EXCEPT
                  !.element_list = @ + 1, !.i = @ + 1]
    ELSE [Called(run, "create_git_blob", FALSE) EXCEPT
             !.pc = "returned",
             !.returned = Error("Failed to process file", "absent")]

\* One iteration of the loop of lines 62-85.
AddBlob ==
    /\ run.pc = "add: blobs"
    /\ run.i < Len(run.files)
    /\ \E outcome \in ApiOutcomes :
          /\ run' = process_file(run.files[run.i + 1], outcome)
          /\ github' = IF Len(run'.calls) > Len(run.calls) /\ Last(run'.calls).ok
                       THEN [github EXCEPT !.blobs = @ + 1]
                       ELSE github
    /\ UNCHANGED localVars

\* Line 88: repo.create_git_tree(element_list, base_tree), once the loop has
\* ended.
AddTree ==
    /\ run.pc = "add: blobs"
    /\ run.i = Len(run.files)
    /\ \E outcome \in ApiOutcomes :
          /\ run' = IF outcome = "ok"
                    THEN [Called(run, "create_git_tree", TRUE) EXCEPT !.pc = "add: commit"]
                    ELSE [OuterExcept(outcome) EXCEPT
                             !.calls = Called(run, "create_git_tree", FALSE).calls]
          /\ github' = IF outcome = "ok" THEN [github EXCEPT !.trees = @ + 1] ELSE github
    /\ UNCHANGED localVars

\* Lines 91-95: repo.create_git_commit.
AddCommit ==
    /\ run.pc = "add: commit"
    /\ \E outcome \in ApiOutcomes :
          /\ run' = IF outcome = "ok"
                    THEN [Called(run, "create_git_commit", TRUE) EXCEPT !.pc = "add: ref"]
                    ELSE [OuterExcept(outcome) EXCEPT
                             !.calls = Called(run, "create_git_commit", FALSE).calls]
          /\ github' = IF outcome = "ok" THEN [github EXCEPT !.commits = @ + 1]
                       ELSE github
    /\ UNCHANGED localVars

\* Lines 98-108: ref.edit(commit.sha), then the success result.
AddRefEdit ==
    /\ run.pc = "add: ref"
    /\ \E outcome \in ApiOutcomes :
          /\ run' = IF outcome = "ok"
                    THEN [Called(run, "ref.edit", TRUE) EXCEPT
                             !.pc = "returned", !.returned = Success("absent")]
                    ELSE [OuterExcept(outcome) EXCEPT
                             !.calls = Called(run, "ref.edit", FALSE).calls]
          /\ github' = IF outcome = "ok" THEN [github EXCEPT !.ref = github.commits]
                       ELSE github
    /\ UNCHANGED localVars

NextGithub ==
    \/ CallCommand
    \/ OtherUserCloses
    \/ OtherUserMerges
    \/ ComputeMergeable
    \/ MergeGetPull
    \/ MergeRefresh
    \/ MergeCall
    \/ MergeDeleteBranch
    \/ CloseGetPull
    \/ CloseComment
    \/ CloseEdit
    \/ ReopenGetPull
    \/ ReopenComment
    \/ ReopenEdit
    \/ ReopenRefresh
    \/ AddGetRef
    \/ AddBlob
    \/ AddTree
    \/ AddCommit
    \/ AddRefEdit

SpecGithub == InitGithub /\ [][NextGithub]_vars

(***************************************************************************)
(* advanced_edit_file, line by line (specification SpecEdit).              *)
(***************************************************************************)
\* The file is the list of lines readlines() returns; the command is followed
\* statement by statement: the read, one step per element of edit_operations,
\* the write after the loop.

\* Longest list of edit operations passed to the command.
MaxOps == 2

\* Longest file the command starts from.
MaxLines == 2

\* The lines a file is made of before the call.
FileLines == {"a\n", "b\n"}

\* The files on disk before the call: absent, or a list of lines.
Files ==
    {[exists |-> FALSE, lines |-> <<>>]}
    \cup {[exists |-> TRUE, lines |-> l] :
            l \in UNION {[1..n -> FileLines] : n \in 0..MaxLines}}

OperationNames == {"insert_line", "replace_line", "delete_line", "move_line"}

LineNumbers == {0, 1, 3}

Contents == {"x", "y\n"}

\* The dicts of edit_operations: complete ones, ones without "line_number",
\* ones without "content".
EditOperations ==
    {[operation |-> o, line_number |-> n, content |-> c] :
        o \in OperationNames, n \in LineNumbers, c \in Contents}
    \cup {[operation |-> o, content |-> "x"] : o \in OperationNames}
    \cup {[operation |-> o, line_number |-> n] :
            o \in {"insert_line", "delete_line"}, n \in LineNumbers}

EditOperationLists == UNION {[1..n -> EditOperations] : n \in 0..MaxOps}

\* content.endswith("\n")
endswith_newline(s) == s \in {"\n", "a\n", "b\n", "x\n", "y\n"}

\* if not content.endswith("\n"): content += "\n"
with_newline(s) ==
    IF endswith_newline(s) THEN s
    ELSE CASE s = "" -> "\n"
           [] s = "x" -> "x\n"

\* while len(lines) <= line_idx: lines.append("\n")
extend(lines, line_idx) ==
    IF Len(lines) <= line_idx
    THEN lines \o [k \in 1..(line_idx + 1 - Len(lines)) |-> "\n"]
    ELSE lines

\* lines.insert(line_idx, content), line_idx < len(lines)
list_insert(lines, line_idx, content) ==
    SubSeq(lines, 1, line_idx) \o <<content>> \o SubSeq(lines, line_idx + 1, Len(lines))

\* lines.pop(line_idx)
list_pop(lines, line_idx) ==
    SubSeq(lines, 1, line_idx) \o SubSeq(lines, line_idx + 2, Len(lines))

\* op.get("content", "")
op_content(op) == IF "content" \in DOMAIN op THEN op.content ELSE ""

\* One pass through the body of the loop: the list of lines after it, or the
\* error the command returns from inside the loop.
edit_operation(lines, op) ==
    IF "line_number" \notin DOMAIN op
    THEN [returns |-> TRUE, error |-> "Error: Missing line_number in edit operation",
          lines |-> lines]
    ELSE LET line_idx == op.line_number - 1
         IN IF line_idx < 0
            THEN [returns |-> TRUE, error |-> "Error: Invalid line number", lines |-> lines]
            ELSE LET extended == extend(lines, line_idx)
                 IN CASE op.operation = "insert_line" ->
                           [returns |-> FALSE, error |-> "",
                            lines |-> list_insert(extended, line_idx,
                                                  with_newline(op_content(op)))]
                      [] op.operation = "replace_line" ->
                           [returns |-> FALSE, error |-> "",
                            lines |-> [extended EXCEPT ![line_idx + 1] =
                                                  with_newline(op_content(op))]]
                      [] op.operation = "delete_line" ->
                           [returns |-> FALSE, error |-> "",
                            lines |-> IF 0 <= line_idx /\ line_idx < Len(extended)
                                      THEN list_pop(extended, line_idx)
                                      ELSE extended]
                      [] OTHER ->
                           [returns |-> TRUE, error |-> "Error: Unsupported operation",
                            lines |-> extended]

InitEdit ==
    /\ REGISTERED_COMMANDS = <<>>
    /\ COMMAND_SCHEMAS = <<>>
    /\ COMMANDS_BY_CATEGORY = <<>>
    /\ sys_modules = {}
    /\ callLog = <<>>
    /\ envCI = ""
    /\ hasInit = SrcPackages
    /\ broken = {}
    /\ pc = "idle"
    /\ catIdx = 1
    /\ cmdIdx = 1
    /\ runs = 0
    /\ completed = 0
    /\ invoked = 0
    /\ wpc = "idle"
    /\ observed = NoObservation
    /\ stdout = NotPrinted
    /\ fs = EmptyFileSystem
    /\ denied = {}
    /\ result = NoResult
    /\ github = NoGithub
    /\ disk \in Files
    /\ run = NoCommand

editVars ==
    <<REGISTERED_COMMANDS, COMMAND_SCHEMAS, COMMANDS_BY_CATEGORY, sys_modules, callLog,
      envCI, hasInit, broken, pc, catIdx, cmdIdx, runs, completed, invoked, wpc,
      observed, stdout, fs, denied, result, github>>

\* The command is called: lines 28-33, the existence test and the read.
EditCall ==
    /\ run.pc = "idle"
    /\ \E edit_operations \in EditOperationLists :
          run' = IF ~disk.exists
                 THEN [pc |-> "returned", command |-> "advanced_edit_file",
                       edit_operations |-> edit_operations, i |-> 1, lines |-> <<>>,
                       before |-> disk, success |-> FALSE,
                       returned |-> "Error: File does not exist", n |-> run.n + 1]
                 ELSE [pc |-> "loop", command |-> "advanced_edit_file",
                       edit_operations |-> edit_operations, i |-> 1, lines |-> disk.lines,
                       before |-> disk, success |-> FALSE, returned |-> "",
                       n |-> run.n + 1]
    /\ UNCHANGED <<editVars, disk>>

\* The loop body writing the file after each operation it applied.
EditOperation_writing_each_step ==
    /\ run.pc = "loop"
    /\ run.i <= Len(run.edit_operations)
    /\ LET r == edit_operation(run.lines, run.edit_operations[run.i])
       IN /\ run' = IF r.returns
                    THEN [run EXCEPT !.pc = "returned", !.returned = r.error,
                                     !.lines = r.lines]
                    ELSE [run EXCEPT !.i = @ + 1, !.lines = r.lines]
          /\ disk' = IF r.returns THEN disk ELSE [exists |-> TRUE, lines |-> r.lines]
    /\ UNCHANGED editVars

\* One element of edit_operations, lines 36-71.
EditOperation ==
    /\ run.pc = "loop"
    /\ run.i <= Len(run.edit_operations)
    /\ LET r == edit_operation(run.lines, run.edit_operations[run.i])
       IN run' = IF r.returns
                 THEN [run EXCEPT !.pc = "returned", !.returned = r.error, !.lines = r.lines]
                 ELSE [run EXCEPT !.i = @ + 1, !.lines = r.lines]
    /\ UNCHANGED <<editVars, disk>>

\* After the loop, lines 74-79: the file is opened for writing and the lines
\* are written; an open that fails is reported by the handler of line 78.
EditWrite ==
    /\ run.pc = "loop"
    /\ run.i > Len(run.edit_operations)
    /\ \E outcome \in {"ok", "PermissionError"} :
          IF outcome = "ok"
          THEN /\ disk' = [exists |-> TRUE, lines |-> run.lines]
               /\ run' = [run EXCEPT !.pc = "returned", !.success = TRUE,
                                     !.returned = "Successfully applied"]
          ELSE /\ disk' = disk
               /\ run' = [run EXCEPT !.pc = "returned",
                                     !.returned = "Error editing file"]
    /\ UNCHANGED editVars

NextEdit ==
    \/ EditCall
    \/ EditOperation
    \/ EditWrite

SpecEdit == InitEdit /\ [][NextEdit]_vars

(***************************************************************************)
(* git_clone (specification SpecClone).                                    *)
(***************************************************************************)
\* Paths are sequences of characters, so that abspath, join and startswith
\* work as they do on Python strings.

\* Number of git_clone calls in one behavior.
MaxClones == 2

\* os.getcwd(): the output directory the agent runs the commands in.
current_dir == <<"/", "w", "/", "o">>

\* The target_dir arguments: none, a name, a path with '..', absolute paths
\* outside and inside the current directory, a sibling whose name starts with
\* the name of the current directory.
TargetDirs ==
    { <<>>,
      <<"r">>,
      <<".", ".", "/", "x">>,
      <<"a", "/", ".", ".", "/", ".", ".", "/", "x">>,
      <<"/", "e">>,
      <<"/", "w", "/", "o", "2">>,
      <<"/", "w", "/", "o", "/", "r">> }

RepoUrls ==
    {"https://github.com/owner/r", "https://github.com/owner/r.git",
     "git@github.com:owner/r.git", "ftp://github.com/owner/r"}

Branches == {"", "dev"}

\* The three patterns of is_valid_git_url on the URLs above.
is_valid_git_url(url) ==
    url \in {"https://github.com/owner/r", "https://github.com/owner/r.git",
             "git@github.com:owner/r.git"}

\* get_repo_name_from_url on the URLs above: '.git' removed, last part kept.
get_repo_name_from_url(url) == <<"r">>

RECURSIVE split(_, _)
\* path.split("/"): the components, cur being the one under construction.
split(path, cur) ==
    IF path = <<>> THEN <<cur>>
    ELSE IF Head(path) = "/" THEN <<cur>> \o split(Tail(path), <<>>)
    ELSE split(Tail(path), Append(cur, Head(path)))

RECURSIVE collapse(_, _)
\* The loop of os.path.normpath over the components of an absolute path:
\* empty components and '.' are dropped, '..' removes the component before it.
collapse(comps, kept) ==
    IF comps = <<>> THEN kept
    ELSE LET c == Head(comps)
         IN IF c = <<>> \/ c = <<".">> THEN collapse(Tail(comps), kept)
            ELSE IF c = <<".", ".">>
                 THEN collapse(Tail(comps),
                               IF kept = <<>> THEN kept
                               ELSE SubSeq(kept, 1, Len(kept) - 1))
            ELSE collapse(Tail(comps), Append(kept, c))

RECURSIVE join_components(_)
\* "/" + "/".join(comps)
join_components(comps) ==
    IF comps = <<>> THEN <<>>
    ELSE <<"/">> \o Head(comps) \o join_components(Tail(comps))

\* os.path.normpath of an absolute path
normpath(path) ==
    LET comps == collapse(split(path, <<>>), <<>>)
    IN IF comps = <<>> THEN <<"/">> ELSE join_components(comps)

\* os.path.join(a, b): an absolute b discards a.
os_path_join(a, b) ==
    IF b # <<>> /\ Head(b) = "/" THEN b ELSE a \o <<"/">> \o b

\* os.path.abspath(path) = normpath(join(os.getcwd(), path))
abspath(path) == normpath(os_path_join(current_dir, path))

\* a.startswith(b) on the characters
str_startswith(a, b) == Len(b) <= Len(a) /\ SubSeq(a, 1, Len(b)) = b

\* Lines 38-50: the directory name given to git and the path the command
\* takes to be the destination.
clone_target(repo_url, target_dir) ==
    LET dir == IF target_dir = <<>> THEN get_repo_name_from_url(repo_url) ELSE target_dir
        target_path == abspath(dir)
    IN [target_dir |-> dir,
        target_path |-> IF ~str_startswith(target_path, abspath(current_dir))
                        THEN os_path_join(current_dir, dir)
                        ELSE target_path]

\* f"{target_path}_old_{mtime}"
backup_dir(target_path) == target_path \o <<"_", "o", "l", "d">>

\* The directory 'git clone <url> <dir>' run in the current directory writes to.
git_clone_destination(dir) == abspath(dir)

InitClone ==
    /\ REGISTERED_COMMANDS = <<>>
    /\ COMMAND_SCHEMAS = <<>>
    /\ COMMANDS_BY_CATEGORY = <<>>
    /\ sys_modules = {}
    /\ callLog = <<>>
    /\ envCI = ""
    /\ hasInit = SrcPackages
    /\ broken = {}
    /\ pc = "idle"
    /\ catIdx = 1
    /\ cmdIdx = 1
    /\ runs = 0
    /\ completed = 0
    /\ invoked = 0
    /\ wpc = "idle"
    /\ observed = NoObservation
    /\ stdout = NotPrinted
    /\ fs = EmptyFileSystem
    /\ denied = {}
    /\ result = NoResult
    /\ github = NoGithub
    /\ disk = {}
    /\ run = [pc |-> "idle", n |-> 0, cloned |-> {}]

\* git_clone is called: lines 25-50.
CloneCall ==
    /\ run.pc \in {"idle", "returned"}
    /\ run.n < MaxClones
    /\ \E repo_url \in RepoUrls, target_dir \in TargetDirs, branch \in Branches :
          LET t == clone_target(repo_url, target_dir)
          IN run' = [pc |-> IF is_valid_git_url(repo_url) THEN "prepare" ELSE "returned",
                     n |-> run.n + 1, cloned |-> run.cloned,
                     repo_url |-> repo_url, branch |-> branch,
                     target_dir |-> t.target_dir, target_path |-> t.target_path,
                     success |-> FALSE]
    /\ UNCHANGED <<editVars, disk>>

\* Lines 53-58: what is at target_path is moved aside.
ClonePrepare ==
    /\ run.pc = "prepare"
    /\ disk' = IF normpath(run.target_path) \in disk
                  /\ str_startswith(run.target_path, abspath(current_dir))
               THEN (disk \ {normpath(run.target_path)})
                       \cup {normpath(backup_dir(run.target_path))}
               ELSE disk
    /\ run' = [run EXCEPT !.pc = "clone"]
    /\ UNCHANGED editVars

\* Lines 61-82: git clone is run with target_dir as its directory argument;
\* it fails when the destination exists or the repository cannot be fetched.
CloneRun ==
    /\ run.pc = "clone"
    /\ \E returncode \in {0, 128} :
          /\ returncode = 0 => git_clone_destination(run.target_dir) \notin disk
          /\ IF returncode = 0
             THEN /\ disk' = disk \cup {git_clone_destination(run.target_dir)}
                  /\ run' = [run EXCEPT !.pc = "checkout",
                                        !.cloned = @ \cup
                                            {git_clone_destination(run.target_dir)}]
             ELSE /\ disk' = disk
                  /\ run' = [run EXCEPT !.pc = "returned"]
    /\ UNCHANGED editVars

\* Lines 85-119: the optional checkout, and the result.
CloneCheckout ==
    /\ run.pc = "checkout"
    /\ run' = [run EXCEPT !.pc = "returned", !.success = TRUE]
    /\ UNCHANGED <<editVars, disk>>

NextClone ==
    \/ CloneCall
    \/ ClonePrepare
    \/ CloneRun
    \/ CloneCheckout

SpecClone == InitClone /\ [][NextClone]_vars

(***************************************************************************)
(* SmartPDFProcessor.chunk_text_by_tokens (specification SpecChunk).       *)
(***************************************************************************)
\* Texts are sequences of characters; the loop over the words is followed
\* word by word.

\* Largest max_tokens argument.
MaxTokens == 1

\* Longest text.
MaxTextLen == 6

Texts == UNION {[1..n -> {"a", " "}] : n \in 0..MaxTextLen}

RECURSIVE str_split(_, _)
\* text.split(): the runs of characters other than white space.
str_split(text, cur) ==
    IF text = <<>> THEN (IF cur = <<>> THEN <<>> ELSE <<cur>>)
    ELSE IF Head(text) = " "
         THEN (IF cur = <<>> THEN <<>> ELSE <<cur>>) \o str_split(Tail(text), <<>>)
         ELSE str_split(Tail(text), Append(cur, Head(text)))

RECURSIVE str_join(_)
\* ' '.join(words)
str_join(words) ==
    IF words = <<>> THEN <<>>
    ELSE IF Len(words) = 1 THEN Head(words)
    ELSE Head(words) \o <<" ">> \o str_join(Tail(words))

\* The body of the loop, lines 538-547.
chunk_word(c, word) ==
    LET word_length == Len(word) + 1
    IN IF c.current_length + word_length > c.max_chars /\ c.current_chunk # <<>>
       THEN [c EXCEPT !.chunks = Append(@, str_join(c.current_chunk)),
                      !.current_chunk = <<word>>,
                      !.current_length = word_length]
       ELSE [c EXCEPT !.current_chunk = Append(@, word),
                      !.current_length = @ + word_length]

InitChunk ==
    /\ REGISTERED_COMMANDS = <<>>
    /\ COMMAND_SCHEMAS = <<>>
    /\ COMMANDS_BY_CATEGORY = <<>>
    /\ sys_modules = {}
    /\ callLog = <<>>
    /\ envCI = ""
    /\ hasInit = SrcPackages
    /\ broken = {}
    /\ pc = "idle"
    /\ catIdx = 1
    /\ cmdIdx = 1
    /\ runs = 0
    /\ completed = 0
    /\ invoked = 0
    /\ wpc = "idle"
    /\ observed = NoObservation
    /\ stdout = NotPrinted
    /\ fs = EmptyFileSystem
    /\ denied = {}
    /\ result = NoResult
    /\ github = NoGithub
    /\ disk = <<>>
    /\ run = NoCommand

\* chunk_text_by_tokens is called: lines 527-535.
ChunkCall ==
    /\ run.pc = "idle"
    /\ \E text \in Texts, max_tokens \in 1..MaxTokens :
          LET max_chars == max_tokens * 4
          IN run' = IF Len(text) <= max_chars
                    THEN [pc |-> "returned", n |-> run.n + 1, text |-> text,
                          max_tokens |-> max_tokens, max_chars |-> max_chars,
                          words |-> <<>>, i |-> 1, chunks |-> <<text>>,
                          current_chunk |-> <<>>, current_length |-> 0]
                    ELSE [pc |-> "words", n |-> run.n + 1, text |-> text,
                          max_tokens |-> max_tokens, max_chars |-> max_chars,
                          words |-> str_split(text, <<>>), i |-> 1, chunks |-> <<>>,
                          current_chunk |-> <<>>, current_length |-> 0]
    /\ UNCHANGED <<editVars, disk>>

\* One word of the loop of line 537.
ChunkWord ==
    /\ run.pc = "words"
    /\ run.i <= Len(run.words)
    /\ run' = [chunk_word(run, run.words[run.i]) EXCEPT !.i = @ + 1]
    /\ UNCHANGED <<editVars, disk>>

\* After the loop, lines 550-553: the last chunk, and the return.
ChunkReturn ==
    /\ run.pc = "words"
    /\ run.i > Len(run.words)
    /\ run' = [run EXCEPT !.pc = "returned",
                          !.chunks = IF run.current_chunk # <<>>
                                     THEN Append(@, str_join(run.current_chunk))
                                     ELSE @]
    /\ UNCHANGED <<editVars, disk>>

NextChunk ==
    \/ ChunkCall
    \/ ChunkWord
    \/ ChunkReturn

SpecChunk == InitChunk /\ [][NextChunk]_vars

(***************************************************************************)
(* Properties of register_command (specification Spec).                    *)
(***************************************************************************)

\* The calls of register_command made by one step.
NewCalls == SubSeq(callLog', Len(callLog) + 1, Len(callLog'))

\* The entries of COMMAND_SCHEMAS that were registered for the name n: entry i
\* is the schema that the i-th call passed, and that call passed the name n.
SchemaEntriesFor(n) ==
    {i \in 1..Len(COMMAND_SCHEMAS) :
        /\ i <= Len(callLog)
        /\ callLog[i].name = n
        /\ callLog[i].schema = COMMAND_SCHEMAS[i]}

\* The places of the category buckets that hold the name n.
BucketEntriesFor(n) ==
    {e \in UNION {{<<c, i>> : i \in 1..Len(COMMANDS_BY_CATEGORY[c])} :
                     c \in DOMAIN COMMANDS_BY_CATEGORY} :
        COMMANDS_BY_CATEGORY[e[1]][e[2]] = n}

BucketNames ==
    UNION {Range(COMMANDS_BY_CATEGORY[c]) : c \in DOMAIN COMMANDS_BY_CATEGORY}

\* C1: every name that is a key of REGISTERED_COMMANDS has exactly one schema
\* in COMMAND_SCHEMAS registered for that name, after any sequence of
\* register_command calls, re-registrations of a name included.
C1_ExactlyOneSchemaPerName ==
    \A n \in DOMAIN REGISTERED_COMMANDS : Cardinality(SchemaEntriesFor(n)) = 1

\* C2: the category buckets partition the registered names: every key of
\* REGISTERED_COMMANDS occurs in exactly one bucket, exactly once, and the
\* union of the buckets is the set of registered names.
C2_BucketsPartitionNames ==
    /\ \A n \in DOMAIN REGISTERED_COMMANDS : Cardinality(BucketEntriesFor(n)) = 1
    /\ BucketNames = DOMAIN REGISTERED_COMMANDS

\* C3: registering one name never changes the function stored under another
\* name: every name registered before a step and not registered by the step
\* still maps to the same function after it.
C3_NoCrossTalk ==
    [][\A n \in DOMAIN REGISTERED_COMMANDS :
          (\A k \in 1..Len(NewCalls) : NewCalls[k].name # n)
              => /\ n \in DOMAIN REGISTERED_COMMANDS'
                 /\ REGISTERED_COMMANDS'[n] = REGISTERED_COMMANDS[n]]_vars

\* Two distinct names registered with distinct functions, with a registration
\* of a third name between them, each still mapped to its own function.
C3_Witness ==
    /\ Len(callLog) = 3
    /\ callLog[1].name # callLog[3].name
    /\ callLog[2].name \notin {callLog[1].name, callLog[3].name}
    /\ callLog[1].func # callLog[3].func
    /\ REGISTERED_COMMANDS[callLog[1].name] = callLog[1].func
    /\ REGISTERED_COMMANDS[callLog[3].name] = callLog[3].func

\* C5: a register_command call whose schema's function.name differs from the
\* name is rejected and leaves the three collections unchanged.
C5_MismatchRejected ==
    [][(\E k \in 1..Len(NewCalls) :
            NewCalls[k].schema.function.name # NewCalls[k].name)
          => UNCHANGED registry]_vars

\* The index of the most recent call that registered the name n.
LastCallOf(n) ==
    CHOOSE i \in 1..Len(callLog) :
        /\ callLog[i].name = n
        /\ \A j \in (i + 1)..Len(callLog) : callLog[j].name # n

\* C6: last registration wins: the registered names are the names passed to
\* register_command so far, and each maps to the function passed by the most
\* recent call for that name.
C6_LastRegistrationWins ==
    /\ DOMAIN REGISTERED_COMMANDS = {callLog[i].name : i \in 1..Len(callLog)}
    /\ \A n \in DOMAIN REGISTERED_COMMANDS :
          REGISTERED_COMMANDS[n] = callLog[LastCallOf(n)].func

\* A name registered twice with different functions, holding the later one.
C6_Witness ==
    \E i \in 1..Len(callLog), j \in 1..Len(callLog) :
        /\ i < j
        /\ callLog[i].name = callLog[j].name
        /\ callLog[i].func # callLog[j].func
        /\ LastCallOf(callLog[j].name) = j
        /\ REGISTERED_COMMANDS[callLog[j].name] = callLog[j].func

\* C7: COMMAND_SCHEMAS is append-only and in call order: a step keeps the old
\* list as a prefix and appends the schemas of its register_command calls, in
\* the order of the calls.
C7_SchemasAppendOnly ==
    [][/\ Len(COMMAND_SCHEMAS') = Len(COMMAND_SCHEMAS) + Len(NewCalls)
       /\ SubSeq(COMMAND_SCHEMAS', 1, Len(COMMAND_SCHEMAS)) = COMMAND_SCHEMAS
       /\ \A k \in 1..Len(NewCalls) :
             COMMAND_SCHEMAS'[Len(COMMAND_SCHEMAS) + k] = NewCalls[k].schema]_vars

\* Three registrations, two of them for the same schema name, all three
\* schemas still listed in call order.
C7_Witness ==
    /\ Len(COMMAND_SCHEMAS) = 3
    /\ COMMAND_SCHEMAS[1].function.name = COMMAND_SCHEMAS[3].function.name
    /\ COMMAND_SCHEMAS[1] # COMMAND_SCHEMAS[3]
    /\ \A i \in 1..3 : COMMAND_SCHEMAS[i] = callLog[i].schema

(***************************************************************************)
(* Properties of discover_commands (specification SpecDiscover).           *)
(***************************************************************************)

SchemaNames == {COMMAND_SCHEMAS[i].function.name : i \in 1..Len(COMMAND_SCHEMAS)}

screenshot_module == ModulePath("system_ops", "screenshot")

\* C4: after discover_commands has returned, COMMAND_SCHEMAS holds exactly one
\* schema per registered name, and every schema's function.name is the name
\* that was passed to register_command together with it.
C4_DiscoveredSchemasMatchNames ==
    pc = "done" =>
        /\ SchemaNames = DOMAIN REGISTERED_COMMANDS
        /\ \A n \in DOMAIN REGISTERED_COMMANDS :
              Cardinality({i \in 1..Len(COMMAND_SCHEMAS) :
                              COMMAND_SCHEMAS[i].function.name = n}) = 1
        /\ Len(COMMAND_SCHEMAS) = Len(callLog)
        /\ \A i \in 1..Len(COMMAND_SCHEMAS) :
              /\ COMMAND_SCHEMAS[i] = callLog[i].schema
              /\ COMMAND_SCHEMAS[i].function.name = callLog[i].name

\* Discovery has returned and has registered commands whose name differs from
\* the name of their module.
C4_Witness ==
    /\ pc = "done"
    /\ "github_repo_reader" \in DOMAIN REGISTERED_COMMANDS
    /\ REGISTERED_COMMANDS["github_repo_reader"].name = "repo_reader"
    /\ "github_repo_reader" \in SchemaNames
    /\ "github_issue_reader" \in SchemaNames

\* C8: once a discover_commands call has returned, the steps of a further
\* call leave the registry as it is; and the import of a command module that is already in
\* sys.modules (imported by its category package's __init__) changes nothing,
\* so no name gets a second schema or category entry.
C8_RediscoveryChangesNothing ==
    [][(\/ completed >= 1 /\ pc \in {"category", "command"}
        \/ /\ pc = "command"
           /\ cmdIdx <= Len(ModuleListing(category_name))
           /\ ModulePath(category_name, command_name) \in sys_modules)
          => UNCHANGED registry]_vars

\* A second discover_commands call has run to its end over modules that were
\* all cached, some of them imported first by the github_ops package.
C8_Witness ==
    /\ completed = 2
    /\ pc = "done"
    /\ ModulePath("github_ops", "repo_reader") \in sys_modules
    /\ Len(COMMAND_SCHEMAS) = Cardinality(DOMAIN REGISTERED_COMMANDS)
    /\ Len(COMMAND_SCHEMAS) >= 26

\* C9: with CI equal to "true" in any letter case, discover_commands never
\* imports commands.system_ops.screenshot and after discovery take_screenshot
\* is in none of the three collections; with the flag off, take_screenshot is
\* registered once discovery has completed.
C9_HeadlessExclusion ==
    /\ skip_gui_commands =>
          /\ screenshot_module \notin sys_modules
          /\ pc = "done" =>
                /\ "take_screenshot" \notin DOMAIN REGISTERED_COMMANDS
                /\ "take_screenshot" \notin SchemaNames
                /\ "take_screenshot" \notin BucketNames
    /\ (~skip_gui_commands /\ pc = "done") =>
          "take_screenshot" \in DOMAIN REGISTERED_COMMANDS

\* C10: a failing import of one command module does not abort discovery: when
\* discover_commands has ended, every other command module of every listed
\* category that is not excluded has been imported.
C10_ImportFailureDoesNotAbort ==
    pc \in {"done", "raised"} =>
        \A c \in Range(iter_categories) :
            \A m \in Range(ModuleListing(c)) :
                (/\ ModulePath(c, m) \notin broken
                 /\ ~(skip_gui_commands /\ <<c, m>> \in gui_commands))
                    => ModulePath(c, m) \in sys_modules

\* C11: a command module whose import fails leaves no partial entry: the name
\* of its command is absent from REGISTERED_COMMANDS, from COMMAND_SCHEMAS and
\* from every bucket of COMMANDS_BY_CATEGORY.
C11_NoPartialEntryOfFailedImport ==
    \A k \in DOMAIN ModuleTable :
        ModulePath(k[1], k[2]) \in broken =>
            /\ ModuleTable[k].name \notin DOMAIN REGISTERED_COMMANDS
            /\ ModuleTable[k].name \notin SchemaNames
            /\ ModuleTable[k].name \notin BucketNames

\* The import of a command module in the middle of the github_ops package's
\* import list has failed, after earlier modules of the list had registered.
C11_Witness ==
    /\ pc = "raised"
    /\ broken = {ModulePath("github_ops", "git_clone")}
    /\ ModulePath("github_ops", "git_clone") \notin sys_modules
    /\ "github_create_issue" \in DOMAIN REGISTERED_COMMANDS

(***************************************************************************)
(* Lookup and dispatch by the caller of the registry.                      *)
(***************************************************************************)

\* The value a dict lookup yields for an absent key (REGISTERED_COMMANDS.get).
None == [found |-> FALSE]

\* get(name): the registered function, or the not-found indicator.
get(name) ==
    IF name \in DOMAIN REGISTERED_COMMANDS
    THEN [found |-> TRUE, func |-> REGISTERED_COMMANDS[name]]
    ELSE None

\* What the stub commands return when invoked.
call(func) ==
    CASE func.name = "ping" -> [kind |-> "string", text |-> "pong"]
      [] func.name = "fail_always" ->
            [kind |-> "mapping", success |-> FALSE, error |-> "boom"]

\* The caller's dispatch: look the name up, invoke what was found.
dispatch(name) ==
    IF get(name).found
    THEN [outcome |-> "returned", value |-> call(get(name).func)]
    ELSE [outcome |-> "not_found"]

LookupNames == Names \cup {"missing_cmd"}

RegisteredSoFar == {callLog[i].name : i \in 1..Len(callLog)}

\* C12: looking up a name that was never passed to register_command yields the
\* not-found outcome, never a function, and that outcome differs from what
\* any registered command returns when it is found and invoked, an error
\* payload included.
C12_UnknownNameNotFound ==
    \A n \in LookupNames :
        n \notin RegisteredSoFar =>
            /\ get(n) = None
            /\ dispatch(n).outcome = "not_found"
            /\ \A m \in DOMAIN REGISTERED_COMMANDS : dispatch(m) # dispatch(n)

\* Commands are registered, one of them returns an error payload, and names
\* that were never registered are looked up.
C12_Witness ==
    /\ Len(callLog) = 3
    /\ "missing_cmd" \notin RegisteredSoFar /\ "add" \notin RegisteredSoFar
    /\ "fail_always" \in DOMAIN REGISTERED_COMMANDS
    /\ REGISTERED_COMMANDS["fail_always"].name = "fail_always"
    /\ dispatch("fail_always").outcome = "returned"
    /\ dispatch("fail_always").value.success = FALSE
    /\ dispatch("add").outcome = "not_found"
    /\ dispatch("missing_cmd").outcome = "not_found"

\* C13: once discover_commands has returned, the three registry collections
\* never change again: no step taken after the return, the invocation of any
\* registered command included, adds, replaces or reorders an entry.
C13_ReadOnlyAfterDiscovery ==
    [][(completed >= 1 /\ pc = "done") => UNCHANGED registry]_vars

(***************************************************************************)
(* Properties of print_commands (specification SpecPrint).                 *)
(***************************************************************************)

\* C15: print_commands is read-only over the registry: the step that prints
\* leaves REGISTERED_COMMANDS, COMMAND_SCHEMAS and COMMANDS_BY_CATEGORY as they
\* were, and creates no empty category bucket.
C15_PrintIsReadOnly ==
    [][(~stdout.printed /\ stdout'.printed) => UNCHANGED registry]_vars

\* A listing of a registry that holds commands in a single category.
C15_Witness ==
    /\ stdout.printed
    /\ ~stdout.raised
    /\ DOMAIN COMMANDS_BY_CATEGORY = {"stub_ops"}
    /\ Len(COMMAND_SCHEMAS) >= 2

\* The categories of the listing, in the order of their heading lines.
ListedCategories ==
    LET sel == SelectSeq(stdout.lines, LAMBDA l : l.kind = "category")
    IN [i \in 1..Len(sel) |-> sel[i].category]

\* The command names listed under the category c, in the order of their lines.
ListedCommands(c) ==
    LET sel == SelectSeq(stdout.lines, LAMBDA l : l.kind = "command" /\ l.category = c)
    IN [i \in 1..Len(sel) |-> sel[i].cmd]

Occurrences(s, x) == Cardinality({i \in 1..Len(s) : s[i] = x})

\* C16: the listing has the categories in ascending order and, within each
\* category, the command names in ascending order; a complete listing holds
\* exactly the categories of COMMANDS_BY_CATEGORY and exactly the entries of
\* each bucket, so it is determined by the registered set and not by the order
\* of registration.
C16_ListingIsSorted ==
    stdout.printed =>
        /\ \A i \in 1..Len(ListedCategories), j \in 1..Len(ListedCategories) :
              i < j => str_less(ListedCategories[i], ListedCategories[j])
        /\ \A c \in Range(ListedCategories) :
              \A i \in 1..Len(ListedCommands(c)), j \in 1..Len(ListedCommands(c)) :
                 i < j => ~str_less(ListedCommands(c)[j], ListedCommands(c)[i])
        /\ ~stdout.raised =>
              /\ Range(ListedCategories) = DOMAIN COMMANDS_BY_CATEGORY
              /\ \A c \in DOMAIN COMMANDS_BY_CATEGORY :
                    /\ Len(ListedCommands(c)) = Len(COMMANDS_BY_CATEGORY[c])
                    /\ \A n \in Range(COMMANDS_BY_CATEGORY[c]) :
                          Occurrences(ListedCommands(c), n)
                              = Occurrences(COMMANDS_BY_CATEGORY[c], n)

\* A complete listing of two categories registered in descending order, one of
\* them holding two names registered in descending order.
C16_Witness ==
    /\ stdout.printed
    /\ ~stdout.raised
    /\ Len(callLog) = 3
    /\ callLog[1].func.module = <<"commands", "stub_ops", "ping">>
    /\ callLog[3].func.module = <<"stubs">>
    /\ DOMAIN COMMANDS_BY_CATEGORY = {"misc", "stub_ops"}
    /\ COMMANDS_BY_CATEGORY["stub_ops"] = <<"ping", "add">>
    /\ ListedCategories = <<"misc", "stub_ops">>
    /\ ListedCommands("stub_ops") = <<"add", "ping">>

\* C17: print_commands never raises, whatever schema mappings were
\* registered, and on an empty registry it prints the heading and the "no
\* commands registered" message and returns.
C17_PrintNeverRaises ==
    stdout.printed =>
        /\ ~stdout.raised
        /\ DOMAIN REGISTERED_COMMANDS = {} =>
              stdout.lines = <<TextLine("Available Commands:"),
                               TextLine("No commands registered yet.")>>

\* The schema the command n was registered with, by its latest registration.
OwnSchema(n) == callLog[LastCallOf(n)].schema

\* C18: every command line of the listing carries the description of that
\* command's own schema, unchanged, and the fallback text only when no
\* registered schema has the command's name as its function.name.
C18_OwnDescriptionPrinted ==
    \A i \in 1..Len(stdout.lines) :
        stdout.lines[i].kind = "command" =>
            LET l == stdout.lines[i]
                named == {k \in 1..Len(COMMAND_SCHEMAS) :
                             /\ HasFunctionName(COMMAND_SCHEMAS[k])
                             /\ COMMAND_SCHEMAS[k].function.name = l.cmd}
            IN /\ (HasFunctionName(OwnSchema(l.cmd))
                      /\ OwnSchema(l.cmd).function.name = l.cmd)
                     => l.description = OwnSchema(l.cmd).function.description
               /\ l.description = "No description available" => named = {}

(***************************************************************************)
(* The category of a registration (specification Spec).                    *)
(***************************************************************************)

\* The segment of a module path that follows the top-level package name, and
\* "misc" for a path of one segment.
SegmentAfterPackage(module) ==
    IF Len(module) = 1 THEN "misc" ELSE Head(Tail(module))

\* The names registered so far with a function whose module path gives c.
NamesFiledUnder(c) ==
    LET sel == SelectSeq(callLog,
                         LAMBDA e : SegmentAfterPackage(e.func.module) = c)
    IN [i \in 1..Len(sel) |-> sel[i].name]

\* C19: register_command files each name under the second segment of the
\* module path of its function, and under "misc" when the path has one
\* segment: every bucket holds exactly the names registered with such a
\* function, in call order, and there is no other bucket.
C19_CategoryFromModulePath ==
    /\ DOMAIN COMMANDS_BY_CATEGORY
          = {SegmentAfterPackage(callLog[i].func.module) : i \in 1..Len(callLog)}
    /\ \A c \in DOMAIN COMMANDS_BY_CATEGORY :
          COMMANDS_BY_CATEGORY[c] = NamesFiledUnder(c)

\* A function of a three-segment module filed under its second segment and a
\* function of a one-segment module filed under "misc".
C19_Witness ==
    /\ Len(callLog) = 2
    /\ callLog[1].func.module = <<"commands", "stub_ops", "ping">>
    /\ callLog[2].func.module = <<"stubs">>
    /\ COMMANDS_BY_CATEGORY["stub_ops"] = <<callLog[1].name>>
    /\ COMMANDS_BY_CATEGORY["misc"] = <<callLog[2].name>>

(***************************************************************************)
(* Completeness of discovery (specification SpecDiscover).                 *)
(***************************************************************************)

\* C21: with no failing import and the headless flag off, a call of
\* discover_commands that has returned leaves the registry fully populated:
\* every command module commands/<category>/<command> of the tree has been
\* imported and its command is registered, schema and bucket entry included.
C21_DiscoveryIsComplete ==
    (pc = "done" /\ completed >= 1 /\ broken = {} /\ ~skip_gui_commands) =>
        \A k \in DOMAIN ModuleTable :
            /\ ModulePath(k[1], k[2]) \in sys_modules
            /\ ModuleTable[k].name \in DOMAIN REGISTERED_COMMANDS
            /\ REGISTERED_COMMANDS[ModuleTable[k].name] = ModuleTable[k].func
            /\ ModuleTable[k].name \in SchemaNames
            /\ ModuleTable[k].name \in Range(COMMANDS_BY_CATEGORY[k[1]])

(***************************************************************************)
(* Confinement of read_file and write_file (specification SpecFileOps).    *)
(***************************************************************************)

\* The path n names an entry below the directory OUTPUT_DIR.
InsideOutputDir(n) ==
    IF dirname(n) \in Nodes THEN dirname(dirname(n)) = OUTPUT_DIR
    ELSE dirname(n) = OUTPUT_DIR

\* C22: for every path that is not inside OUTPUT_DIR, write_file returns the
\* security error and creates or modifies no file (no step of write_file
\* changes an entry outside OUTPUT_DIR), and read_file returns an error and
\* never the content of the file.
C22_ConfinedToOutputDir ==
    [][\A n \in Nodes :
          ~InsideOutputDir(n) =>
              /\ result'.cmd = "write_file" => fs'[n] = fs[n]
              /\ \A c \in ContentArgs :
                    /\ write_file(fs, denied, StrPath(n), c).detail = "Security Error"
                    /\ write_file(fs, denied, StrPath(n), c).fs = fs
              /\ read_file(fs, denied, StrPath(n)).kind = "error"]_vars

(***************************************************************************)
(* Properties of the pull request commands (specification SpecGithub).     *)
(***************************************************************************)

\* The calls of the API the command under way has made so far.
CallsMade == IF run.n = 0 THEN <<>> ELSE run.calls

\* C23: github_merge_pr calls the merge operation only for a pull request
\* that, as fetched last before the call, is open, not merged and mergeable;
\* when the pull request fetched last is merged or closed or its mergeable
\* flag is None or False, the command returns an error.
C23_MergeOnlyWhatWasFetchedMergeable ==
    /\ \A k \in 1..Len(CallsMade) :
          CallsMade[k].api = "merge" =>
              /\ CallsMade[k].pr.state = "open"
              /\ ~CallsMade[k].pr.merged
              /\ CallsMade[k].pr.mergeable = "True"
    /\ (/\ run.pc = "returned"
        /\ run.command = "merge pull request"
        /\ run.pr.state # ""
        /\ \/ run.pr.merged
           \/ run.pr.state = "closed"
           \/ run.pr.mergeable # "True")
          => run.returned.status = "error"

\* The calls before call k that succeeded and went to api.
EarlierCalls(k, api) ==
    {j \in 1..(k - 1) : CallsMade[j].api = api /\ CallsMade[j].ok}

\* C24: in github_close_pr and github_reopen_pr a supplied comment is posted
\* before the state change is attempted; when posting it fails the state
\* change is not attempted and an error is returned; when the state change
\* fails after the comment was posted, the error returned reports commented
\* = true.
C24_CommentThenStateChange ==
    (run.n > 0 /\ run.command \in {"close pull request", "reopen pull request"}) =>
        /\ \A k \in 1..Len(CallsMade) :
              (CallsMade[k].api = "edit" /\ run.comment)
                  => EarlierCalls(k, "create_issue_comment") # {}
        /\ (run.pc = "returned" /\ run.comment /\ ~run.commented) =>
              /\ run.returned.status = "error"
              /\ \A k \in 1..Len(CallsMade) : CallsMade[k].api # "edit"
        /\ (/\ run.pc = "returned"
            /\ run.commented
            /\ \E k \in 1..Len(CallsMade) : CallsMade[k].api = "edit" /\ ~CallsMade[k].ok)
              => /\ run.returned.status = "error"
                 /\ run.returned.commented = "True"

\* C25: github_add_files updates the branch reference only after a blob for
\* every file of the list, the tree and the commit have been created; when a
\* file of the list cannot be processed the command returns an error and the
\* branch reference is the one from before the call.
C25_RefUpdatedLast ==
    (run.n > 0 /\ run.command = "add files") =>
        /\ \A k \in 1..Len(CallsMade) :
              CallsMade[k].api = "ref.edit" =>
                  /\ Cardinality(EarlierCalls(k, "create_git_blob")) = Len(run.files)
                  /\ EarlierCalls(k, "create_git_tree") # {}
                  /\ EarlierCalls(k, "create_git_commit") # {}
        /\ (\A k \in 1..Len(CallsMade) : ~(CallsMade[k].api = "ref.edit" /\ CallsMade[k].ok))
              => github.ref = run.ref_before
        /\ (run.pc \notin {"add files", "add: blobs"} /\ run.element_list < Len(run.files))
              => /\ run.pc = "returned"
                 /\ run.returned.status = "error"
                 /\ github.ref = run.ref_before

\* The second file of a list of two could not be processed after the blob of
\* the first was created: an error was returned and the reference is unmoved.
C25_Witness ==
    /\ run.n > 0
    /\ run.command = "add files"
    /\ run.files = <<"file", "no_content">>
    /\ run.pc = "returned"
    /\ run.returned.status = "error"
    /\ run.element_list = 1
    /\ github.blobs >= 1
    /\ github.ref = run.ref_before

(***************************************************************************)
(* Properties of advanced_edit_file (specification SpecEdit).              *)
(***************************************************************************)

RECURSIVE AppliedInOrder(_, _)
\* The lines after every operation of the list has been applied, first to last.
AppliedInOrder(lines, ops) ==
    IF ops = <<>> THEN lines
    ELSE AppliedInOrder(edit_operation(lines, Head(ops)).lines, Tail(ops))

\* The errors the loop returns for an operation it rejects.
Rejections ==
    {"Error: Missing line_number in edit operation", "Error: Invalid line number",
     "Error: Unsupported operation"}

C29_DeleteBeyondEndIsNoOp ==
    (/\ run.pc = "returned"
     /\ run.success
     /\ Len(run.edit_operations) = 1
     /\ run.edit_operations[1].operation = "delete_line"
     /\ run.edit_operations[1].line_number > Len(run.before.lines))
        => disk.lines = run.before.lines

(***************************************************************************)
(* Properties of git_clone (specification SpecClone).                      *)
(***************************************************************************)

\* The path is the current directory or lies below it.
InsideCurrentDir(path) ==
    \/ path = current_dir
    \/ str_startswith(path, current_dir \o <<"/">>)

\* C27: every directory git clone has written to lies inside the current
\* working directory, whatever target_dir was given.
C27_ClonesInsideCurrentDir ==
    \A d \in run.cloned : InsideCurrentDir(d)

(***************************************************************************)
(* Properties of chunk_text_by_tokens (specification SpecChunk).           *)
(***************************************************************************)

\* C28: every chunk chunk_text_by_tokens returns has at most max_tokens * 4
\* characters.
C28_ChunksWithinMaxChars ==
    (run.pc = "returned") =>
        \A k \in 1..Len(run.chunks) : Len(run.chunks[k]) <= run.max_tokens * 4

(***************************************************************************)
(* The listing after a name was registered again (specification SpecPrint).*)
(***************************************************************************)

\* The positions in the call history of the registrations of the name n.
RegistrationsOf(n) == {k \in 1..Len(callLog) : callLog[k].name = n}

\* The name n was registered twice, with two functions and two schemas that
\* both carry n as their function.name.
RegisteredTwiceDifferently(n) ==
    /\ Cardinality(RegistrationsOf(n)) = 2
    /\ \A j, k \in RegistrationsOf(n) :
          j # k => /\ callLog[j].func # callLog[k].func
                   /\ callLog[j].schema # callLog[k].schema
    /\ \A k \in RegistrationsOf(n) :
          /\ HasFunctionName(callLog[k].schema)
          /\ callLog[k].schema.function.name = n

\* C30: when a name has been registered twice with different functions and
\* schemas, the listing shows for it the description of the schema of the
\* latest registration, the one of the function REGISTERED_COMMANDS holds.
C30_LatestDescriptionListed ==
    \A i \in 1..Len(stdout.lines) :
        (/\ stdout.lines[i].kind = "command"
         /\ RegisteredTwiceDifferently(stdout.lines[i].cmd))
            => LET n == stdout.lines[i].cmd
                   latest == CHOOSE k \in RegistrationsOf(n) :
                                \A j \in RegistrationsOf(n) : j <= k
               IN /\ REGISTERED_COMMANDS[n] = callLog[latest].func
                  /\ stdout.lines[i].description =
                        callLog[latest].schema.function.description

====
